---- MODULE Spec2Model ----
(***************************************************************************)
(* Verification model of the GPX walking-track pipeline:                   *)
(*   - src/src/lib/simplify.ts      Douglas-Peucker simplification         *)
(*   - src/src/lib/db.ts            the walks store                        *)
(*   - src/scripts/preprocess-gpx.ts the ingestion pipeline (main)         *)
(*                                                                         *)
(* Numbers.  Coordinates are points of a grid whose step is 0.001 degree.  *)
(* Tolerances are whole multiples of TolUnit = 0.00001 / 2^20 degree, the  *)
(* smallest step the 20 halvings of simplifyToCount can produce, so every  *)
(* tolerance the code computes is represented exactly.  Distances are kept *)
(* as exact squared rationals and compared with exact multi-limb           *)
(* arithmetic; the rounding of IEEE doubles is not modelled.               *)
(***************************************************************************)
EXTENDS Integers, Sequences, FiniteSets, TLC

VARIABLES
  \* simplify.ts: one call of simplifyPath or simplifyToCount
  op,             \* which function is being called
  coordinates,    \* the argument `coordinates`
  tolerance,      \* simplifyPath's argument `tolerance` (TolUnits)
  targetCount,    \* simplifyToCount's argument
  minPoints,      \* simplifyToCount's argument
  lowTolerance,   \* simplifyToCount's local
  highTolerance,  \* simplifyToCount's local
  result,         \* simplifyToCount's local `result`
  iterations,     \* simplifyToCount's local
  returned,       \* the value returned, once spc = "returned"
  spc,            \* position of the call: "none" | "call" | "loop" | "after" | "returned" | "threw"
  \* db.ts: the walks table and the singleton handle
  walks,          \* the rows of table `walks`
  dbOpen,         \* db # null
  \* the store API called directly: the last call, its row, the table before it
  lastCall, lastRow, walksBefore,
  queryBounds,    \* getWalksInBounds: the arguments, when the last call was a query
  queryResult,    \* getWalksInBounds: the rows returned, when the last call was a query
  \* preprocess-gpx.ts: the environment of a run
  dir,            \* public/gpx: file name -> "absent" | "ok" | "bad"
  dirExists,      \* fs.existsSync(GPX_DIR)
  forceRebuild, statusOnly, summariesOnly,   \* the flags of lines 34-37
  \* preprocess-gpx.ts: main and generateMissingSummaries
  pc,             \* position in main; "done" once it has ended, "exited" between runs
  exitCode,       \* -1 while running, else the exit code of the process
  exitPath,       \* how the run ended
  gpxFiles, processedFiles, ollamaAvailable, filesToProcess, i, startIndex,
  walk, summary,
  successCount, errorCount, summaryCount, totalOriginalPoints, totalSimplifiedPoints,
  walksWithoutSummary, wi,
  report,         \* what showStatus printed
  outstanding,    \* summary requests sent and not yet answered
  storeFailures,  \* store operations that threw in this run
  \* history of the run, read by the properties only
  walksAtStart,   \* the table when the run began
  outcome,        \* one entry per source counted, in order
  storeFailed,    \* a store operation threw in this run
  summaryRequests,\* generateRouteSummary calls of this run
  updatedIds,     \* ids passed to updateWalkSummary in this run
  \* Map.tsx: the props and state of the Map component and what it renders
  mapWalks,       \* the prop `walks`
  selectedWalk,   \* the prop `selectedWalk` (NoMapWalk for null)
  viewState,      \* the state `viewState`: zoom, longitude, latitude
  visibleWalks,   \* the memo `visibleWalks`
  layerPaths,     \* getPath of the "walks" layer, one path per visible walk
  selectedPath,   \* getPath of the selected-route layers
  \* preprocess-gpx.ts: the metrics parseGPXFile computes for one track
  points,         \* the track points: optional time (ms), optional elevation (m)
  walkDistance,   \* the local `distance`: calculatePathDistance(points), km
  duration,       \* calculateDuration(points), minutes
  elevation,      \* calculateElevation(points): gain and loss
  walkDuration,   \* the field `duration` of the walk returned
  mpc,            \* "none" | "parsed" | "measured" | "returned"
  \* WalksContext: the state of WalksProvider and its requests in flight
  ctxWalks,       \* the state `walks`
  isLoading,      \* the state `isLoading`
  ctxSelectedWalk,\* the state `selectedWalk` (NoSelectedWalk for null)
  overlappingWalks, \* the state `overlappingWalks`
  overlayPosition,  \* the state `overlayPosition` (NoPosition for null)
  fullCoordinatesCache, \* the keys of the ref `fullCoordinatesCache`
  reloads,        \* fetch("/api/walks") calls not yet answered
  fetching,       \* walk id -> fetch(`/api/walks/${walkId}`) calls not yet answered
  \* history of the context, read by the properties only
  fetched,        \* walk id -> fetches of that id answered with data.walk
  lastResponse    \* the id whose full-detail response was the last step, else 0

simplifyVars == <<op, coordinates, tolerance, targetCount, minPoints,
                  lowTolerance, highTolerance, result, iterations, returned, spc>>
storeVars == <<walks, dbOpen>>
dbApiVars == <<lastCall, lastRow, walksBefore, queryBounds, queryResult>>
envVars == <<dir, dirExists, forceRebuild, statusOnly, summariesOnly>>
ctlVars == <<pc, exitCode, exitPath>>
discVars == <<gpxFiles, processedFiles>>
loopVars == <<filesToProcess, i, startIndex, walk, summary>>
counterVars == <<successCount, errorCount, summaryCount,
                 totalOriginalPoints, totalSimplifiedPoints>>
sumVars == <<walksWithoutSummary, wi>>
histVars == <<walksAtStart, outcome, storeFailed, summaryRequests, updatedIds>>
metricVars == <<points, walkDistance, duration, elevation, walkDuration, mpc>>
pipeVars == <<envVars, ctlVars, discVars, loopVars, counterVars, sumVars, histVars,
              ollamaAvailable, report, outstanding, storeFailures>>

ctxVars == <<ctxWalks, isLoading, ctxSelectedWalk, overlappingWalks, overlayPosition,
             fullCoordinatesCache, reloads, fetching, fetched, lastResponse>>
mapVars == <<mapWalks, selectedWalk, viewState, visibleWalks, layerPaths, selectedPath>>
vars == <<simplifyVars, storeVars, dbApiVars, pipeVars, mapVars, metricVars, ctxVars>>

----------------------------------------------------------------------------
(* Bounds of the model *)

MaxX == 1
MaxLen == 4

(* Program constants *)

maxIterations == 20

Xs == 0..MaxX
Ys == {0, 1}
Points == Xs \X Ys

RECURSIVE SeqsUpTo(_, _)
SeqsUpTo(S, n) ==
  IF n = 0 THEN {<<>>}
  ELSE LET shorter == SeqsUpTo(S, n - 1)
       IN shorter \cup {Append(s, x) : s \in {t \in shorter : Len(t) = n - 1}, x \in S}

CoordinateSeqs == SeqsUpTo(Points, MaxLen)

\* Longer tracks for simplifyToCount: a straight line, a line with one spike,
\* and a zigzag, so that targetCount = 5 has inputs longer than the target.
LongTracks ==
  { <<(<<0, 0>>), (<<1, 0>>), (<<2, 0>>), (<<3, 0>>), (<<4, 0>>), (<<5, 0>>)>>,
    <<(<<0, 0>>), (<<1, 0>>), (<<2, 1>>), (<<3, 0>>), (<<4, 0>>), (<<5, 0>>)>>,
    <<(<<0, 0>>), (<<1, 1>>), (<<2, 0>>), (<<3, 1>>), (<<4, 0>>), (<<5, 1>>)>> }

\* Tracks whose points all lie on one line, taken along it in any order.
CollinearTracks ==
  { <<(<<1, 0>>), (<<0, 0>>), (<<3, 0>>), (<<2, 0>>)>>,
    <<(<<0, 3>>), (<<0, 1>>), (<<0, 2>>)>>,
    <<(<<0, 0>>), (<<1, 2>>), (<<2, 4>>)>>,
    <<(<<2, 4>>), (<<0, 0>>), (<<1, 2>>), (<<3, 6>>)>>,
    <<(<<3, 1>>), (<<1, 3>>), (<<2, 2>>), (<<0, 4>>), (<<4, 0>>)>>,
    <<(<<0, 0>>), (<<2, 2>>), (<<1, 1>>), (<<0, 0>>)>> }

\* The track [(0,0),(0,1),(0,2),(1,2)] with the tolerance 0.5, both scaled by
\* 1/1000: the points in grid steps, the tolerance (below) 0.0005 degree.
ScenarioTrack == <<(<<0, 0>>), (<<0, 1>>), (<<0, 2>>), (<<1, 2>>)>>

\* The calls of simplifyToCount explored: <<coordinates, targetCount, minPoints>>
CountCalls ==
  (CoordinateSeqs \X {2, 3} \X {2, 3, 4}) \cup (LongTracks \X {5} \X {2, 3, 6})

----------------------------------------------------------------------------
(* Exact arithmetic on naturals beyond 32 bits: little-endian limbs. *)

Base == 10000

RECURSIVE BigOf(_)
BigOf(n) == IF n = 0 THEN <<>> ELSE <<n % Base>> \o BigOf(n \div Base)

RECURSIVE BigCarry(_, _)
BigCarry(cols, carry) ==
  IF cols = <<>> THEN BigOf(carry)
  ELSE LET v == Head(cols) + carry
       IN <<v % Base>> \o BigCarry(Tail(cols), v \div Base)

RECURSIVE BigColumn(_, _, _, _)
BigColumn(a, b, k, j) ==
  IF j > Len(a) THEN 0
  ELSE (IF k + 1 - j >= 1 /\ k + 1 - j <= Len(b) THEN a[j] * b[k + 1 - j] ELSE 0)
       + BigColumn(a, b, k, j + 1)

BigMul(a, b) ==
  IF a = <<>> \/ b = <<>> THEN <<>>
  ELSE BigCarry([k \in 1..(Len(a) + Len(b) - 1) |-> BigColumn(a, b, k, 1)], 0)

RECURSIVE BigLessFrom(_, _, _)
BigLessFrom(a, b, j) ==
  IF j = 0 THEN FALSE
  ELSE IF a[j] # b[j] THEN a[j] < b[j]
  ELSE BigLessFrom(a, b, j - 1)

BigLess(a, b) ==
  \/ Len(a) < Len(b)
  \/ Len(a) = Len(b) /\ BigLessFrom(a, b, Len(a))

----------------------------------------------------------------------------
(* Units *)

TolScale == 2 ^ maxIterations          \* TolUnits in 0.00001 degree
GridStep == 100 * TolScale             \* TolUnits in one grid step (0.001 degree)
GridStepSq == BigMul(BigOf(GridStep), BigOf(GridStep))

DefaultTolerance == 10 * TolScale      \* 0.0001
LowToleranceInit == 1 * TolScale       \* 0.00001
HighToleranceInit == 1000 * TolScale   \* 0.01
ScenarioTolerance == 50 * TolScale     \* 0.0005

Tolerances ==
  {0 - DefaultTolerance, 0, DefaultTolerance, ScenarioTolerance, 75 * TolScale,
   100 * TolScale, HighToleranceInit}

----------------------------------------------------------------------------
(* simplify.ts *)

Abs(n) == IF n < 0 THEN 0 - n ELSE n

\* A distance d (in grid steps) is kept exactly as d^2 = n2 / d2.
ZeroDistance == [n2 |-> 0, d2 |-> 1]

\* Mutant: the test for a chord that is a point reads dx === 0 || dy === 0.
perpendicularDistanceOr(point, lineStart, lineEnd) ==
  LET x == point[1]
      y == point[2]
      x1 == lineStart[1]
      y1 == lineStart[2]
      x2 == lineEnd[1]
      y2 == lineEnd[2]
      dx == x2 - x1
      dy == y2 - y1
  IN IF dx = 0 \/ dy = 0
     THEN [n2 |-> (x - x1) * (x - x1) + (y - y1) * (y - y1), d2 |-> 1]
     ELSE LET numerator == Abs(dy * x - dx * y + x2 * y1 - y2 * x1)
          IN [n2 |-> numerator * numerator, d2 |-> dx * dx + dy * dy]

perpendicularDistance(point, lineStart, lineEnd) ==
  LET x == point[1]
      y == point[2]
      x1 == lineStart[1]
      y1 == lineStart[2]
      x2 == lineEnd[1]
      y2 == lineEnd[2]
      dx == x2 - x1
      dy == y2 - y1
  IN IF dx = 0 /\ dy = 0
     THEN [n2 |-> (x - x1) * (x - x1) + (y - y1) * (y - y1), d2 |-> 1]
     ELSE LET numerator == Abs(dy * x - dx * y + x2 * y1 - y2 * x1)
          IN [n2 |-> numerator * numerator, d2 |-> dx * dx + dy * dy]

\* distance > maxDistance
DistGreater(a, b) == a.n2 * b.d2 > b.n2 * a.d2

\* maxDistance > tolerance, the tolerance in TolUnits:
\*   sqrt(n2/d2) * GridStep > tol  <=>  tol^2 * d2 < GridStep^2 * n2
\* A distance is never negative, so it is greater than a negative tolerance
\* exactly when it is a number at all.
DistGreaterTol(dist, tol) ==
  IF tol < 0 THEN TRUE
  ELSE
  BigLess(BigMul(BigMul(BigOf(tol), BigOf(tol)), BigOf(dist.d2)),
          BigMul(GridStepSq, BigOf(dist.n2)))

\* The scan of lines 50-62; maxIndex is the 0-based index of the source.
RECURSIVE FindMax(_, _, _)
FindMax(coords, j, acc) ==
  IF j >= Len(coords) - 1 THEN acc
  ELSE LET distance == perpendicularDistance(coords[j + 1], coords[1], coords[Len(coords)])
       IN FindMax(coords, j + 1,
                  IF DistGreater(distance, acc.maxDistance)
                  THEN [maxDistance |-> distance, maxIndex |-> j]
                  ELSE acc)

\* The recursion of lines 65-68 never ends: with no interior point off the
\* chord maxIndex stays 0, and when maxDistance (0) > tolerance still holds
\* the right half, coordinates.slice(0), is the whole input again.  The call
\* ends in RangeError: Maximum call stack size exceeded.
RECURSIVE Overflows(_, _)
Overflows(coords, tol) ==
  /\ Len(coords) > 2
  /\ LET far == FindMax(coords, 1, [maxDistance |-> ZeroDistance, maxIndex |-> 0])
     IN /\ DistGreaterTol(far.maxDistance, tol)
        /\ \/ far.maxIndex = 0
           \/ Overflows(SubSeq(coords, 1, far.maxIndex + 1), tol)
           \/ Overflows(SubSeq(coords, far.maxIndex + 1, Len(coords)), tol)

RECURSIVE simplifyPath(_, _)

\* Mutant: only the first interior point is measured against the chord.
simplifyPathFirstInterior(coords, tol) ==
  IF Len(coords) <= 2 THEN coords
  ELSE LET distance == perpendicularDistance(coords[2], coords[1], coords[Len(coords)])
       IN IF DistGreaterTol(distance, tol) /\ DistGreater(distance, ZeroDistance)
          THEN LET left == simplifyPath(SubSeq(coords, 1, 2), tol)
                   right == simplifyPath(SubSeq(coords, 2, Len(coords)), tol)
               IN SubSeq(left, 1, Len(left) - 1) \o right
          ELSE <<coords[1], coords[Len(coords)]>>

\* Mutant: the junction point is kept twice.
simplifyPathKeepsJunction(coords, tol) ==
  IF Len(coords) <= 2 THEN coords
  ELSE LET far == FindMax(coords, 1, [maxDistance |-> ZeroDistance, maxIndex |-> 0])
       IN IF DistGreaterTol(far.maxDistance, tol)
          THEN simplifyPath(SubSeq(coords, 1, far.maxIndex + 1), tol)
                 \o simplifyPath(SubSeq(coords, far.maxIndex + 1, Len(coords)), tol)
          ELSE <<coords[1], coords[Len(coords)]>>

\* Mutant: the collapse keeps the point before the last instead of the last.
simplifyPathOffByOne(coords, tol) ==
  IF Len(coords) <= 2 THEN coords
  ELSE LET far == FindMax(coords, 1, [maxDistance |-> ZeroDistance, maxIndex |-> 0])
       IN IF DistGreaterTol(far.maxDistance, tol)
          THEN LET left == simplifyPath(SubSeq(coords, 1, far.maxIndex + 1), tol)
                   right == simplifyPath(SubSeq(coords, far.maxIndex + 1, Len(coords)), tol)
               IN SubSeq(left, 1, Len(left) - 1) \o right
          ELSE <<coords[1], coords[Len(coords) - 1]>>

simplifyPath(coords, tol) ==
  IF Len(coords) <= 2 THEN coords
  ELSE LET far == FindMax(coords, 1, [maxDistance |-> ZeroDistance, maxIndex |-> 0])
           first == coords[1]
           last == coords[Len(coords)]
       IN IF DistGreaterTol(far.maxDistance, tol)
          THEN LET left == simplifyPath(SubSeq(coords, 1, far.maxIndex + 1), tol)
                   right == simplifyPath(SubSeq(coords, far.maxIndex + 1, Len(coords)), tol)
               IN SubSeq(left, 1, Len(left) - 1) \o right
          ELSE <<first, last>>

----------------------------------------------------------------------------
(* db.ts: the walks store *)

Null == "null"             \* SQL NULL in a text column
Undefined == "undefined"   \* an omitted optional property
NoSummary == 0             \* summary IS NULL / summary undefined
SummaryText == 1           \* a text returned by generateRouteSummary
NoWalk == [id |-> 0]

\* Infinity, -Infinity and finite numbers: <<sign of infinity, value>>
Infinity == <<1, 0>>
NegInfinity == <<-1, 0>>
Num(n) == <<0, n>>
ExtLess(a, b) == a[1] < b[1] \/ (a[1] = 0 /\ b[1] = 0 /\ a[2] < b[2])
MathMin(a, b) == IF ExtLess(b, a) THEN b ELSE a
MathMax(a, b) == IF ExtLess(a, b) THEN b ELSE a

\* insertWalk lines 106-120: the fold over coordinatesFull
RECURSIVE computeBounds(_, _)
computeBounds(coords, acc) ==
  IF coords = <<>> THEN acc
  ELSE LET lng == Num(Head(coords)[1])
           lat == Num(Head(coords)[2])
       IN computeBounds(Tail(coords),
            [minLng |-> MathMin(acc.minLng, lng), maxLng |-> MathMax(acc.maxLng, lng),
             minLat |-> MathMin(acc.minLat, lat), maxLat |-> MathMax(acc.maxLat, lat)])

BoundsSeed == [minLng |-> Infinity, maxLng |-> NegInfinity,
               minLat |-> Infinity, maxLat |-> NegInfinity]

\* The summary column.  The db.ts of the repository has no such column, while
\* the pipeline passes a summary with the walk (preprocess-gpx.ts line 581) and
\* reads and updates it through operations db.ts does not hold; it is modelled
\* from the store interface of the specification: the summary passed is stored.
SummaryColumn(w) == w.summary

\* Mutant: the bounds are folded over coordinatesSimplified.
WalkRowSimplifiedBounds(w) ==
  [id |-> w.id,
   sourceFile |-> IF w.sourceFile = Undefined THEN Null ELSE w.sourceFile,
   coordinatesFull |-> w.coordinatesFull,
   coordinatesSimplified |-> w.coordinatesSimplified,
   color |-> w.color,
   bounds |-> computeBounds(w.coordinatesSimplified, BoundsSeed),
   summary |-> SummaryColumn(w)]

\* The row insertWalk binds (lines 133-151).  The columns name, description,
\* date, distance_km, duration_minutes, elevation_* and points are bound as
\* given and read by no operation modelled here; they are left out.
WalkRow(w) ==
  [id |-> w.id,
   sourceFile |-> IF w.sourceFile = Undefined THEN Null ELSE w.sourceFile,
   coordinatesFull |-> w.coordinatesFull,
   coordinatesSimplified |-> w.coordinatesSimplified,
   color |-> w.color,
   bounds |-> computeBounds(w.coordinatesFull, BoundsSeed),
   summary |-> SummaryColumn(w)]

\* Mutant: a plain INSERT that keeps the row already stored under the id.
insertWalkNoReplace(table, w) == table \cup {WalkRow(w)}

\* INSERT OR REPLACE INTO walks: id is the PRIMARY KEY, the only uniqueness
\* constraint of the schema (lines 29-48), so only a row with the same id is
\* replaced.
insertWalk(table, w) == {r \in table : r.id # w.id} \cup {WalkRow(w)}

\* Mutant: the DELETE removes nothing.
clearWalksKeep(table) == table

\* DELETE FROM walks
clearWalks(table) == {}

\* SELECT COUNT(*)
getWalkCount(table) == Cardinality(table)

\* Mutant: the comparisons of the WHERE clause are strict.
getWalksInBoundsStrict(table, minLng, maxLng, minLat, maxLat) ==
  {r \in table : /\ ExtLess(Num(minLng), r.bounds.maxLng)
                 /\ ExtLess(r.bounds.minLng, Num(maxLng))
                 /\ ExtLess(Num(minLat), r.bounds.maxLat)
                 /\ ExtLess(r.bounds.minLat, Num(maxLat))}

\* getWalksInBounds lines 173-191:
\*   WHERE bounds_max_lng >= ? AND bounds_min_lng <= ?
\*     AND bounds_max_lat >= ? AND bounds_min_lat <= ?
\* bound to (minLng, maxLng, minLat, maxLat).  The result is the set of rows
\* selected; their order (ORDER BY date DESC) is left out with the date column.
getWalksInBounds(table, minLng, maxLng, minLat, maxLat) ==
  {r \in table : /\ ~ExtLess(r.bounds.maxLng, Num(minLng))
                 /\ ~ExtLess(Num(maxLng), r.bounds.minLng)
                 /\ ~ExtLess(r.bounds.maxLat, Num(minLat))
                 /\ ~ExtLess(Num(maxLat), r.bounds.minLat)}

RECURSIVE SetToSeqById(_)
SetToSeqById(rows) ==
  IF rows = {} THEN <<>>
  ELSE LET first == CHOOSE r \in rows : \A q \in rows : r.id <= q.id
       IN <<first>> \o SetToSeqById(rows \ {first})

\* Store operations the pipeline imports from db.ts whose code is not in the
\* repository snapshot; modelled from the store interface of the specification.
getProcessedSourceFiles(table) == {r.sourceFile : r \in {q \in table : q.sourceFile # Null}}
getWalksWithoutSummary(table) == SetToSeqById({r \in table : r.summary = NoSummary})
getWalkBySourceFile(table, f) ==
  IF \E r \in table : r.sourceFile = f
  THEN CHOOSE r \in table : r.sourceFile = f /\ \A q \in table : q.sourceFile = f => r.id <= q.id
  ELSE NoWalk
updateWalkSummary(table, id, text) ==
  {IF r.id = id THEN [r EXCEPT !.summary = text] ELSE r : r \in table}

----------------------------------------------------------------------------
(* preprocess-gpx.ts: the ingestion pipeline *)

MaxStoreFailures == 1

NumColors == 7

Files == {"a.gpx", "b.gpx", "c.gpx"}
FileOrder == <<"a.gpx", "b.gpx", "c.gpx">>

\* The track a well-formed file holds.
Track(f) ==
  CASE f = "a.gpx" -> <<(<<0, 0>>), (<<1, 0>>), (<<2, 0>>), (<<2, 1>>)>>
    [] f = "b.gpx" -> <<(<<1, 1>>)>>
    [] OTHER -> <<(<<0, 0>>), (<<1, 1>>), (<<0, 1>>)>>

RECURSIVE FilterSeq(_, _)
FilterSeq(fs, keep) ==
  IF fs = <<>> THEN <<>>
  ELSE (IF Head(fs) \in keep THEN <<Head(fs)>> ELSE <<>>) \o FilterSeq(Tail(fs), keep)

Range(fs) == {fs[n] : n \in 1..Len(fs)}

\* lines 453-456: readdirSync, filtered to *.gpx
ListGpx(d) == FilterSeq(FileOrder, {f \in Files : d[f] # "absent"})

\* generateId, lines 165-167: nine base-36 digits of Math.random().  The ids
\* are taken to be fresh (no collision with a stored id); the least unused
\* number stands for the fresh id.
generateId(table) ==
  CHOOSE n \in 1..(Cardinality(table) + 1) :
    /\ \A r \in table : r.id # n
    /\ \A m \in 1..(n - 1) : \E r \in table : r.id = m

\* parseGPXFile lines 203-292 for a well-formed file; index is colorIndex.
parseGPXFile(f, index, table) ==
  [id |-> generateId(table),
   sourceFile |-> f,
   coordinatesFull |-> Track(f),
   coordinatesSimplified |-> simplifyPath(Track(f), DefaultTolerance),
   color |-> index % NumColors]

NoParsedWalk ==
  [id |-> 0, sourceFile |-> Undefined, coordinatesFull |-> <<>>,
   coordinatesSimplified |-> <<>>, color |-> 0]

\* { ...walk, summary }, line 581
WithSummary(w, s) ==
  [id |-> w.id, sourceFile |-> w.sourceFile, coordinatesFull |-> w.coordinatesFull,
   coordinatesSimplified |-> w.coordinatesSimplified, color |-> w.color,
   summary |-> s]

\* Mutant: --force is looked at before --status and --summaries.
ModeForceFirst(status, summaries, force) ==
  IF force THEN "force"
  ELSE IF status THEN "status"
  ELSE IF summaries THEN "summaries"
  ELSE "incremental"

\* The order in which main looks at the flags: lines 468, 475, 498.
Mode(status, summaries, force) ==
  IF status THEN "status"
  ELSE IF summaries THEN "summaries"
  ELSE IF force THEN "force"
  ELSE "incremental"

\* Mutant: the incremental filter is dropped.
WorkSetAll(force, files, processed) == files

\* filesToProcess, lines 496-507
WorkSet(force, files, processed) ==
  IF force THEN files
  ELSE FilterSeq(files, Range(files) \ processed)

NoReport == [unprocessed |-> -1, orphaned |-> -1, missingSummaries |-> -1]

\* showStatus lines 297-323: the three counts it prints
showStatus(files, processed, table) ==
  [unprocessed |-> Len(FilterSeq(files, Range(files) \ processed)),
   orphaned |-> Cardinality(processed \ Range(files)),
   missingSummaries |-> Len(getWalksWithoutSummary(table))]

\* One source counted by the loop of main: how, why, and what became of its
\* summary request.
Counted(f, status, cause, sum) == [file |-> f, status |-> status, cause |-> cause, summary |-> sum]

SummaryState ==
  IF ~ollamaAvailable THEN "unavailable"
  ELSE IF summary = NoSummary THEN "failed"
  ELSE "ok"

\* process exit / return from main
Exit(code, path) ==
  /\ pc' = "done"
  /\ exitCode' = code
  /\ exitPath' = path

\* A store operation throws.
StoreThrows ==
  /\ storeFailures < MaxStoreFailures
  /\ storeFailures' = storeFailures + 1
  /\ storeFailed' = TRUE

\* main().catch, lines 630-634
Fatal ==
  /\ dbOpen' = FALSE
  /\ Exit(1, "fatal")

\* lines 532-542
EnterLoop ==
  /\ successCount' = 0
  /\ errorCount' = 0
  /\ summaryCount' = 0
  /\ totalOriginalPoints' = 0
  /\ totalSimplifiedPoints' = 0
  /\ startIndex' = IF forceRebuild THEN 0 ELSE Cardinality(processedFiles)
  /\ i' = 0
  /\ pc' = "loop"

\* main lines 441-450: the GPX directory is missing; it is created and the
\* process exits 0 before the store is touched.
StartNoDir ==
  /\ pc = "start"
  /\ ~dirExists
  /\ dirExists' = TRUE
  /\ Exit(0, "nodir")
  /\ UNCHANGED <<walks, dbOpen, dir, forceRebuild, statusOnly, summariesOnly,
                 gpxFiles, processedFiles, ollamaAvailable, filesToProcess,
                 i, startIndex, walk, summary, successCount, errorCount,
                 summaryCount, totalOriginalPoints, totalSimplifiedPoints,
                 walksWithoutSummary, wi, report, outstanding, storeFailures,
                 walksAtStart, outcome, storeFailed, summaryRequests,
                 updatedIds, simplifyVars, dbApiVars, mapVars, metricVars, ctxVars>>

\* main lines 452-462: no *.gpx file; exit 0 before the store is touched.
StartNoFiles ==
  /\ pc = "start"
  /\ dirExists
  /\ ListGpx(dir) = <<>>
  /\ Exit(0, "nofiles")
  /\ UNCHANGED <<walks, dbOpen, dir, dirExists, forceRebuild, statusOnly,
                 summariesOnly, gpxFiles, processedFiles, ollamaAvailable,
                 filesToProcess, i, startIndex, walk, summary, successCount,
                 errorCount, summaryCount, totalOriginalPoints,
                 totalSimplifiedPoints, walksWithoutSummary, wi, report,
                 outstanding, storeFailures, walksAtStart, outcome,
                 storeFailed, summaryRequests, updatedIds, simplifyVars,
                 dbApiVars, mapVars, metricVars, ctxVars>>

\* main lines 452-465: list the GPX files, then getProcessedSourceFiles().
StartDiscover ==
  /\ pc = "start"
  /\ dirExists
  /\ ListGpx(dir) # <<>>
  /\ gpxFiles' = ListGpx(dir)
  /\ dbOpen' = TRUE
  /\ processedFiles' = getProcessedSourceFiles(walks)
  /\ pc' = "mode"
  /\ UNCHANGED <<walks, dir, dirExists, forceRebuild, statusOnly,
                 summariesOnly, exitCode, exitPath, ollamaAvailable,
                 filesToProcess, i, startIndex, walk, summary, successCount,
                 errorCount, summaryCount, totalOriginalPoints,
                 totalSimplifiedPoints, walksWithoutSummary, wi, report,
                 outstanding, storeFailures, walksAtStart, outcome,
                 storeFailed, summaryRequests, updatedIds, simplifyVars,
                 dbApiVars, mapVars, metricVars, ctxVars>>

\* main line 465 throws: main().catch, lines 630-634.
StartDiscoverThrows ==
  /\ pc = "start"
  /\ dirExists
  /\ ListGpx(dir) # <<>>
  /\ gpxFiles' = ListGpx(dir)
  /\ StoreThrows
  /\ Fatal
  /\ UNCHANGED <<walks, dir, dirExists, forceRebuild, statusOnly,
                 summariesOnly, processedFiles, ollamaAvailable,
                 filesToProcess, i, startIndex, walk, summary, successCount,
                 errorCount, summaryCount, totalOriginalPoints,
                 totalSimplifiedPoints, walksWithoutSummary, wi, report,
                 outstanding, walksAtStart, outcome, summaryRequests,
                 updatedIds, simplifyVars, dbApiVars, mapVars, metricVars, ctxVars>>

\* main lines 467-472 and showStatus lines 297-362.
StatusMode ==
  /\ pc = "mode"
  /\ Mode(statusOnly, summariesOnly, forceRebuild) = "status"
  /\ report' = showStatus(gpxFiles, processedFiles, walks)
  /\ dbOpen' = FALSE
  /\ Exit(0, "status")
  /\ UNCHANGED <<walks, dir, dirExists, forceRebuild, statusOnly,
                 summariesOnly, gpxFiles, processedFiles, ollamaAvailable,
                 filesToProcess, i, startIndex, walk, summary, successCount,
                 errorCount, summaryCount, totalOriginalPoints,
                 totalSimplifiedPoints, walksWithoutSummary, wi, outstanding,
                 storeFailures, walksAtStart, outcome, storeFailed,
                 summaryRequests, updatedIds, simplifyVars, dbApiVars,
                 mapVars, metricVars, ctxVars>>

\* showStatus line 321: getWalksWithoutSummary() throws.
StatusModeThrows ==
  /\ pc = "mode"
  /\ Mode(statusOnly, summariesOnly, forceRebuild) = "status"
  /\ StoreThrows
  /\ Fatal
  /\ UNCHANGED <<walks, dir, dirExists, forceRebuild, statusOnly,
                 summariesOnly, gpxFiles, processedFiles, ollamaAvailable,
                 filesToProcess, i, startIndex, walk, summary, successCount,
                 errorCount, summaryCount, totalOriginalPoints,
                 totalSimplifiedPoints, walksWithoutSummary, wi, report,
                 outstanding, walksAtStart, outcome, summaryRequests,
                 updatedIds, simplifyVars, dbApiVars, mapVars, metricVars, ctxVars>>

\* main lines 474-479, generateMissingSummaries lines 371-376: every walk
\* has a summary.
SummariesNone ==
  /\ pc = "mode"
  /\ Mode(statusOnly, summariesOnly, forceRebuild) = "summaries"
  /\ getWalksWithoutSummary(walks) = <<>>
  /\ walksWithoutSummary' = <<>>
  /\ dbOpen' = FALSE
  /\ Exit(0, "summaries")
  /\ UNCHANGED <<walks, dir, dirExists, forceRebuild, statusOnly,
                 summariesOnly, gpxFiles, processedFiles, ollamaAvailable,
                 filesToProcess, i, startIndex, walk, summary, successCount,
                 errorCount, summaryCount, totalOriginalPoints,
                 totalSimplifiedPoints, wi, report, outstanding,
                 storeFailures, walksAtStart, outcome, storeFailed,
                 summaryRequests, updatedIds, simplifyVars, dbApiVars,
                 mapVars, metricVars, ctxVars>>

\* generateMissingSummaries lines 371-378, up to await isOllamaAvailable().
SummariesStart ==
  /\ pc = "mode"
  /\ Mode(statusOnly, summariesOnly, forceRebuild) = "summaries"
  /\ getWalksWithoutSummary(walks) # <<>>
  /\ walksWithoutSummary' = getWalksWithoutSummary(walks)
  /\ pc' = "sumCheck"
  /\ UNCHANGED <<walks, dbOpen, dir, dirExists, forceRebuild, statusOnly,
                 summariesOnly, exitCode, exitPath, gpxFiles, processedFiles,
                 ollamaAvailable, filesToProcess, i, startIndex, walk,
                 summary, successCount, errorCount, summaryCount,
                 totalOriginalPoints, totalSimplifiedPoints, wi, report,
                 outstanding, storeFailures, walksAtStart, outcome,
                 storeFailed, summaryRequests, updatedIds, simplifyVars,
                 dbApiVars, mapVars, metricVars, ctxVars>>

\* generateMissingSummaries line 371 throws.
SummariesStartThrows ==
  /\ pc = "mode"
  /\ Mode(statusOnly, summariesOnly, forceRebuild) = "summaries"
  /\ StoreThrows
  /\ Fatal
  /\ UNCHANGED <<walks, dir, dirExists, forceRebuild, statusOnly,
                 summariesOnly, gpxFiles, processedFiles, ollamaAvailable,
                 filesToProcess, i, startIndex, walk, summary, successCount,
                 errorCount, summaryCount, totalOriginalPoints,
                 totalSimplifiedPoints, walksWithoutSummary, wi, report,
                 outstanding, walksAtStart, outcome, summaryRequests,
                 updatedIds, simplifyVars, dbApiVars, mapVars, metricVars, ctxVars>>

\* Mutant: the refresh goes on although Ollama is not available.
SummariesUnavailableGoesOn ==
  /\ pc = "sumCheck"
  /\ ollamaAvailable' = FALSE
  /\ successCount' = 0
  /\ errorCount' = 0
  /\ wi' = 0
  /\ pc' = "sumLoop"
  /\ UNCHANGED <<walks, dbOpen, dir, dirExists, forceRebuild, statusOnly,
                 summariesOnly, exitCode, exitPath, gpxFiles, processedFiles,
                 filesToProcess, i, startIndex, walk, summary, summaryCount,
                 totalOriginalPoints, totalSimplifiedPoints,
                 walksWithoutSummary, report, outstanding, storeFailures,
                 walksAtStart, outcome, storeFailed, summaryRequests,
                 updatedIds, simplifyVars, dbApiVars, mapVars, metricVars, ctxVars>>

\* generateMissingSummaries lines 378-382: Ollama is not available.
SummariesUnavailable ==
  /\ pc = "sumCheck"
  /\ ollamaAvailable' = FALSE
  /\ dbOpen' = FALSE
  /\ Exit(0, "summaries")
  /\ UNCHANGED <<walks, dir, dirExists, forceRebuild, statusOnly,
                 summariesOnly, gpxFiles, processedFiles, filesToProcess, i,
                 startIndex, walk, summary, successCount, errorCount,
                 summaryCount, totalOriginalPoints, totalSimplifiedPoints,
                 walksWithoutSummary, wi, report, outstanding, storeFailures,
                 walksAtStart, outcome, storeFailed, summaryRequests,
                 updatedIds, simplifyVars, dbApiVars, mapVars, metricVars, ctxVars>>

\* generateMissingSummaries lines 378-389: Ollama is available.
SummariesAvailable ==
  /\ pc = "sumCheck"
  /\ ollamaAvailable' = TRUE
  /\ successCount' = 0
  /\ errorCount' = 0
  /\ wi' = 0
  /\ pc' = "sumLoop"
  /\ UNCHANGED <<walks, dbOpen, dir, dirExists, forceRebuild, statusOnly,
                 summariesOnly, exitCode, exitPath, gpxFiles, processedFiles,
                 filesToProcess, i, startIndex, walk, summary, summaryCount,
                 totalOriginalPoints, totalSimplifiedPoints,
                 walksWithoutSummary, report, outstanding, storeFailures,
                 walksAtStart, outcome, storeFailed, summaryRequests,
                 updatedIds, simplifyVars, dbApiVars, mapVars, metricVars, ctxVars>>

\* generateMissingSummaries lines 391-407: look the walk up and send the request.
SummariesRequest ==
  /\ pc = "sumLoop"
  /\ wi < Len(walksWithoutSummary)
  /\ LET fullWalk == getWalkBySourceFile(walks, walksWithoutSummary[wi + 1].sourceFile)
     IN IF fullWalk.id = NoWalk.id
        THEN /\ wi' = wi + 1
             /\ UNCHANGED <<pc, outstanding, summaryRequests>>
        ELSE /\ outstanding' = outstanding + 1
             /\ summaryRequests' = summaryRequests + 1
             /\ pc' = "sumWait"
             /\ UNCHANGED wi
  /\ UNCHANGED <<walks, dbOpen, dir, dirExists, forceRebuild, statusOnly,
                 summariesOnly, exitCode, exitPath, gpxFiles, processedFiles,
                 ollamaAvailable, filesToProcess, i, startIndex, walk,
                 summary, successCount, errorCount, summaryCount,
                 totalOriginalPoints, totalSimplifiedPoints,
                 walksWithoutSummary, report, storeFailures, walksAtStart,
                 outcome, storeFailed, updatedIds, simplifyVars, dbApiVars,
                 mapVars, metricVars, ctxVars>>

\* generateMissingSummaries line 392 throws, outside the try of line 395.
SummariesRequestThrows ==
  /\ pc = "sumLoop"
  /\ wi < Len(walksWithoutSummary)
  /\ StoreThrows
  /\ Fatal
  /\ UNCHANGED <<walks, dir, dirExists, forceRebuild, statusOnly,
                 summariesOnly, gpxFiles, processedFiles, ollamaAvailable,
                 filesToProcess, i, startIndex, walk, summary, successCount,
                 errorCount, summaryCount, totalOriginalPoints,
                 totalSimplifiedPoints, walksWithoutSummary, wi, report,
                 outstanding, walksAtStart, outcome, summaryRequests,
                 updatedIds, simplifyVars, dbApiVars, mapVars, metricVars, ctxVars>>

\* generateMissingSummaries lines 400-412: the summary arrives and is stored.
SummariesResponseOk ==
  /\ pc = "sumWait"
  /\ outstanding' = outstanding - 1
  /\ walks' = updateWalkSummary(walks, walksWithoutSummary[wi + 1].id, SummaryText)
  /\ updatedIds' = updatedIds \cup {walksWithoutSummary[wi + 1].id}
  /\ successCount' = successCount + 1
  /\ wi' = wi + 1
  /\ pc' = "sumLoop"
  /\ UNCHANGED <<dbOpen, dir, dirExists, forceRebuild, statusOnly,
                 summariesOnly, exitCode, exitPath, gpxFiles, processedFiles,
                 ollamaAvailable, filesToProcess, i, startIndex, walk,
                 summary, errorCount, summaryCount, totalOriginalPoints,
                 totalSimplifiedPoints, walksWithoutSummary, report,
                 storeFailures, walksAtStart, outcome, storeFailed,
                 summaryRequests, simplifyVars, dbApiVars, mapVars, metricVars, ctxVars>>

\* generateMissingSummaries lines 409, 413-417: updateWalkSummary throws and
\* the catch counts an error.
SummariesUpdateThrows ==
  /\ pc = "sumWait"
  /\ StoreThrows
  /\ outstanding' = outstanding - 1
  /\ errorCount' = errorCount + 1
  /\ wi' = wi + 1
  /\ pc' = "sumLoop"
  /\ UNCHANGED <<walks, dbOpen, dir, dirExists, forceRebuild, statusOnly,
                 summariesOnly, exitCode, exitPath, gpxFiles, processedFiles,
                 ollamaAvailable, filesToProcess, i, startIndex, walk,
                 summary, successCount, summaryCount, totalOriginalPoints,
                 totalSimplifiedPoints, walksWithoutSummary, report,
                 walksAtStart, outcome, summaryRequests, updatedIds,
                 simplifyVars, dbApiVars, mapVars, metricVars, ctxVars>>

\* generateMissingSummaries lines 400, 413-417: generateRouteSummary throws.
SummariesResponseFails ==
  /\ pc = "sumWait"
  /\ outstanding' = outstanding - 1
  /\ errorCount' = errorCount + 1
  /\ wi' = wi + 1
  /\ pc' = "sumLoop"
  /\ UNCHANGED <<walks, dbOpen, dir, dirExists, forceRebuild, statusOnly,
                 summariesOnly, exitCode, exitPath, gpxFiles, processedFiles,
                 ollamaAvailable, filesToProcess, i, startIndex, walk,
                 summary, successCount, summaryCount, totalOriginalPoints,
                 totalSimplifiedPoints, walksWithoutSummary, report,
                 storeFailures, walksAtStart, outcome, storeFailed,
                 summaryRequests, updatedIds, simplifyVars, dbApiVars,
                 mapVars, metricVars, ctxVars>>

\* generateMissingSummaries lines 420-424, main lines 477-478.
SummariesFinish ==
  /\ pc = "sumLoop"
  /\ wi >= Len(walksWithoutSummary)
  /\ dbOpen' = FALSE
  /\ Exit(0, "summaries")
  /\ UNCHANGED <<walks, dir, dirExists, forceRebuild, statusOnly,
                 summariesOnly, gpxFiles, processedFiles, ollamaAvailable,
                 filesToProcess, i, startIndex, walk, summary, successCount,
                 errorCount, summaryCount, totalOriginalPoints,
                 totalSimplifiedPoints, walksWithoutSummary, wi, report,
                 outstanding, storeFailures, walksAtStart, outcome,
                 storeFailed, summaryRequests, updatedIds, simplifyVars,
                 dbApiVars, mapVars, metricVars, ctxVars>>

\* generateMissingSummaries line 423: getWalkCount() throws.
SummariesFinishThrows ==
  /\ pc = "sumLoop"
  /\ wi >= Len(walksWithoutSummary)
  /\ StoreThrows
  /\ Fatal
  /\ UNCHANGED <<walks, dir, dirExists, forceRebuild, statusOnly,
                 summariesOnly, gpxFiles, processedFiles, ollamaAvailable,
                 filesToProcess, i, startIndex, walk, summary, successCount,
                 errorCount, summaryCount, totalOriginalPoints,
                 totalSimplifiedPoints, walksWithoutSummary, wi, report,
                 outstanding, walksAtStart, outcome, summaryRequests,
                 updatedIds, simplifyVars, dbApiVars, mapVars, metricVars, ctxVars>>

\* main lines 481-493: await isOllamaAvailable().
CheckOllama ==
  /\ pc = "mode"
  /\ Mode(statusOnly, summariesOnly, forceRebuild) \in {"force", "incremental"}
  /\ ollamaAvailable' \in BOOLEAN
  /\ pc' = "select"
  /\ UNCHANGED <<walks, dbOpen, dir, dirExists, forceRebuild, statusOnly,
                 summariesOnly, exitCode, exitPath, gpxFiles, processedFiles,
                 filesToProcess, i, startIndex, walk, summary, successCount,
                 errorCount, summaryCount, totalOriginalPoints,
                 totalSimplifiedPoints, walksWithoutSummary, wi, report,
                 outstanding, storeFailures, walksAtStart, outcome,
                 storeFailed, summaryRequests, updatedIds, simplifyVars,
                 dbApiVars, mapVars, metricVars, ctxVars>>

\* main lines 498-501, 532-542: force rebuild clears the store.
SelectForce ==
  /\ pc = "select"
  /\ forceRebuild
  /\ walks' = clearWalks(walks)
  /\ filesToProcess' = WorkSet(forceRebuild, gpxFiles, processedFiles)
  /\ EnterLoop
  /\ UNCHANGED <<dbOpen, dir, dirExists, forceRebuild, statusOnly,
                 summariesOnly, exitCode, exitPath, gpxFiles, processedFiles,
                 ollamaAvailable, walk, summary, walksWithoutSummary, wi,
                 report, outstanding, storeFailures, walksAtStart, outcome,
                 storeFailed, summaryRequests, updatedIds, simplifyVars,
                 dbApiVars, mapVars, metricVars, ctxVars>>

\* main line 500: clearWalks() throws.
SelectForceThrows ==
  /\ pc = "select"
  /\ forceRebuild
  /\ StoreThrows
  /\ Fatal
  /\ UNCHANGED <<walks, dir, dirExists, forceRebuild, statusOnly,
                 summariesOnly, gpxFiles, processedFiles, ollamaAvailable,
                 filesToProcess, i, startIndex, walk, summary, successCount,
                 errorCount, summaryCount, totalOriginalPoints,
                 totalSimplifiedPoints, walksWithoutSummary, wi, report,
                 outstanding, walksAtStart, outcome, summaryRequests,
                 updatedIds, simplifyVars, dbApiVars, mapVars, metricVars, ctxVars>>

\* main lines 502-507, 528-542: incremental mode with new files.
SelectIncremental ==
  /\ pc = "select"
  /\ ~forceRebuild
  /\ WorkSet(forceRebuild, gpxFiles, processedFiles) # <<>>
  /\ filesToProcess' = WorkSet(forceRebuild, gpxFiles, processedFiles)
  /\ EnterLoop
  /\ UNCHANGED <<walks, dbOpen, dir, dirExists, forceRebuild, statusOnly,
                 summariesOnly, exitCode, exitPath, gpxFiles, processedFiles,
                 ollamaAvailable, walk, summary, walksWithoutSummary, wi,
                 report, outstanding, storeFailures, walksAtStart, outcome,
                 storeFailed, summaryRequests, updatedIds, simplifyVars,
                 dbApiVars, mapVars, metricVars, ctxVars>>

\* Mutant: the return of line 525 without the closeDb() of line 524.
SelectNothingLeavesOpen ==
  /\ pc = "select"
  /\ ~forceRebuild
  /\ WorkSet(forceRebuild, gpxFiles, processedFiles) = <<>>
  /\ filesToProcess' = <<>>
  /\ Exit(0, "nothing")
  /\ UNCHANGED <<walks, dbOpen, dir, dirExists, forceRebuild, statusOnly,
                 summariesOnly, gpxFiles, processedFiles, ollamaAvailable, i,
                 startIndex, walk, summary, successCount, errorCount,
                 summaryCount, totalOriginalPoints, totalSimplifiedPoints,
                 walksWithoutSummary, wi, report, outstanding, storeFailures,
                 walksAtStart, outcome, storeFailed, summaryRequests,
                 updatedIds, simplifyVars, dbApiVars, mapVars, metricVars, ctxVars>>

\* main lines 509-526: incremental mode with nothing to do.
SelectNothing ==
  /\ pc = "select"
  /\ ~forceRebuild
  /\ WorkSet(forceRebuild, gpxFiles, processedFiles) = <<>>
  /\ filesToProcess' = <<>>
  /\ dbOpen' = FALSE
  /\ Exit(0, "nothing")
  /\ UNCHANGED <<walks, dir, dirExists, forceRebuild, statusOnly,
                 summariesOnly, gpxFiles, processedFiles, ollamaAvailable, i,
                 startIndex, walk, summary, successCount, errorCount,
                 summaryCount, totalOriginalPoints, totalSimplifiedPoints,
                 walksWithoutSummary, wi, report, outstanding, storeFailures,
                 walksAtStart, outcome, storeFailed, summaryRequests,
                 updatedIds, simplifyVars, dbApiVars, mapVars, metricVars, ctxVars>>

\* main lines 513, 523: getWalksWithoutSummary() or getWalkCount() throws.
SelectNothingThrows ==
  /\ pc = "select"
  /\ ~forceRebuild
  /\ WorkSet(forceRebuild, gpxFiles, processedFiles) = <<>>
  /\ filesToProcess' = <<>>
  /\ StoreThrows
  /\ Fatal
  /\ UNCHANGED <<walks, dir, dirExists, forceRebuild, statusOnly,
                 summariesOnly, gpxFiles, processedFiles, ollamaAvailable, i,
                 startIndex, walk, summary, successCount, errorCount,
                 summaryCount, totalOriginalPoints, totalSimplifiedPoints,
                 walksWithoutSummary, wi, report, outstanding, walksAtStart,
                 outcome, summaryRequests, updatedIds, simplifyVars,
                 dbApiVars, mapVars, metricVars, ctxVars>>

\* Mutant: the summary is requested and not awaited.
ParseOkNoAwait ==
  /\ pc = "loop"
  /\ i < Len(filesToProcess)
  /\ dir[filesToProcess[i + 1]] = "ok"
  /\ walk' = parseGPXFile(filesToProcess[i + 1], startIndex + i, walks)
  /\ summary' = NoSummary
  /\ IF ollamaAvailable
     THEN /\ outstanding' = outstanding + 1
          /\ summaryRequests' = summaryRequests + 1
          /\ pc' = "insert"
     ELSE /\ pc' = "insert"
          /\ UNCHANGED <<outstanding, summaryRequests>>
  /\ UNCHANGED <<walks, dbOpen, dir, dirExists, forceRebuild, statusOnly,
                 summariesOnly, exitCode, exitPath, gpxFiles, processedFiles,
                 ollamaAvailable, filesToProcess, i, startIndex,
                 successCount, errorCount, summaryCount, totalOriginalPoints,
                 totalSimplifiedPoints, walksWithoutSummary, wi, report,
                 storeFailures, walksAtStart, outcome, storeFailed,
                 updatedIds, simplifyVars, dbApiVars, mapVars, metricVars, ctxVars>>

\* main lines 544-567: parseGPXFile returns a walk; with Ollama available the
\* summary request is sent.
ParseOk ==
  /\ pc = "loop"
  /\ i < Len(filesToProcess)
  /\ dir[filesToProcess[i + 1]] = "ok"
  /\ walk' = parseGPXFile(filesToProcess[i + 1], startIndex + i, walks)
  /\ summary' = NoSummary
  /\ IF ollamaAvailable
     THEN /\ outstanding' = outstanding + 1
          /\ summaryRequests' = summaryRequests + 1
          /\ pc' = "summary"
     ELSE /\ pc' = "insert"
          /\ UNCHANGED <<outstanding, summaryRequests>>
  /\ UNCHANGED <<walks, dbOpen, dir, dirExists, forceRebuild, statusOnly,
                 summariesOnly, exitCode, exitPath, gpxFiles, processedFiles,
                 ollamaAvailable, filesToProcess, i, startIndex,
                 successCount, errorCount, summaryCount, totalOriginalPoints,
                 totalSimplifiedPoints, walksWithoutSummary, wi, report,
                 storeFailures, walksAtStart, outcome, storeFailed,
                 updatedIds, simplifyVars, dbApiVars, mapVars, metricVars, ctxVars>>

\* Mutant: a file that does not parse ends the run through main().catch.
ParseFailsAborts ==
  /\ pc = "loop"
  /\ i < Len(filesToProcess)
  /\ dir[filesToProcess[i + 1]] = "bad"
  /\ errorCount' = errorCount + 1
  /\ outcome' = Append(outcome, Counted(filesToProcess[i + 1], "failed", "parse", "none"))
  /\ Fatal
  /\ UNCHANGED <<walks, dir, dirExists, forceRebuild, statusOnly,
                 summariesOnly, gpxFiles, processedFiles, ollamaAvailable,
                 filesToProcess, i, startIndex, walk, summary, successCount,
                 summaryCount, totalOriginalPoints, totalSimplifiedPoints,
                 walksWithoutSummary, wi, report, outstanding, storeFailures,
                 walksAtStart, storeFailed, summaryRequests, updatedIds,
                 simplifyVars, dbApiVars, mapVars, metricVars, ctxVars>>

\* main lines 550, 598-605: parseGPXFile returns null (lines 208-232) or throws;
\* either way the file is counted as failed and the loop goes on.
ParseFails ==
  /\ pc = "loop"
  /\ i < Len(filesToProcess)
  /\ dir[filesToProcess[i + 1]] = "bad"
  /\ errorCount' = errorCount + 1
  /\ outcome' = Append(outcome, Counted(filesToProcess[i + 1], "failed", "parse", "none"))
  /\ i' = i + 1
  /\ UNCHANGED <<walks, dbOpen, dir, dirExists, forceRebuild, statusOnly,
                 summariesOnly, pc, exitCode, exitPath, gpxFiles,
                 processedFiles, ollamaAvailable, filesToProcess, startIndex,
                 walk, summary, successCount, summaryCount,
                 totalOriginalPoints, totalSimplifiedPoints,
                 walksWithoutSummary, wi, report, outstanding, storeFailures,
                 walksAtStart, storeFailed, summaryRequests, updatedIds,
                 simplifyVars, dbApiVars, mapVars, metricVars, ctxVars>>

\* main lines 560-570: the summary arrives.
SummaryOk ==
  /\ pc = "summary"
  /\ outstanding' = outstanding - 1
  /\ summary' = SummaryText
  /\ summaryCount' = summaryCount + 1
  /\ pc' = "insert"
  /\ UNCHANGED <<walks, dbOpen, dir, dirExists, forceRebuild, statusOnly,
                 summariesOnly, exitCode, exitPath, gpxFiles, processedFiles,
                 ollamaAvailable, filesToProcess, i, startIndex, walk,
                 successCount, errorCount, totalOriginalPoints,
                 totalSimplifiedPoints, walksWithoutSummary, wi, report,
                 storeFailures, walksAtStart, outcome, storeFailed,
                 summaryRequests, updatedIds, simplifyVars, dbApiVars,
                 mapVars, metricVars, ctxVars>>

\* Mutant: a failed summary request reaches the per-file catch.
SummaryFailsPropagates ==
  /\ pc = "summary"
  /\ outstanding' = outstanding - 1
  /\ errorCount' = errorCount + 1
  /\ outcome' = Append(outcome, Counted(walk.sourceFile, "failed", "summary", "failed"))
  /\ i' = i + 1
  /\ pc' = "loop"
  /\ UNCHANGED <<walks, dbOpen, dir, dirExists, forceRebuild, statusOnly,
                 summariesOnly, exitCode, exitPath, gpxFiles, processedFiles,
                 ollamaAvailable, filesToProcess, startIndex, walk, summary,
                 successCount, summaryCount, totalOriginalPoints,
                 totalSimplifiedPoints, walksWithoutSummary, wi, report,
                 storeFailures, walksAtStart, storeFailed, summaryRequests,
                 updatedIds, simplifyVars, dbApiVars, mapVars, metricVars, ctxVars>>

\* main lines 560, 571-577: generateRouteSummary throws; the inner catch logs it.
SummaryFails ==
  /\ pc = "summary"
  /\ outstanding' = outstanding - 1
  /\ summary' = NoSummary
  /\ pc' = "insert"
  /\ UNCHANGED <<walks, dbOpen, dir, dirExists, forceRebuild, statusOnly,
                 summariesOnly, exitCode, exitPath, gpxFiles, processedFiles,
                 ollamaAvailable, filesToProcess, i, startIndex, walk,
                 successCount, errorCount, summaryCount, totalOriginalPoints,
                 totalSimplifiedPoints, walksWithoutSummary, wi, report,
                 storeFailures, walksAtStart, outcome, storeFailed,
                 summaryRequests, updatedIds, simplifyVars, dbApiVars,
                 mapVars, metricVars, ctxVars>>

\* main lines 580-597: insertWalk({...walk, summary}) and the success counters.
InsertOk ==
  /\ pc = "insert"
  /\ walks' = insertWalk(walks, WithSummary(walk, summary))
  /\ dbOpen' = TRUE
  /\ successCount' = successCount + 1
  /\ totalOriginalPoints' = totalOriginalPoints + Len(walk.coordinatesFull)
  /\ totalSimplifiedPoints' = totalSimplifiedPoints + Len(walk.coordinatesSimplified)
  /\ outcome' = Append(outcome, Counted(walk.sourceFile, "ok", "none", SummaryState))
  /\ i' = i + 1
  /\ pc' = "loop"
  /\ UNCHANGED <<dir, dirExists, forceRebuild, statusOnly, summariesOnly,
                 exitCode, exitPath, gpxFiles, processedFiles,
                 ollamaAvailable, filesToProcess, startIndex, walk, summary,
                 errorCount, summaryCount, walksWithoutSummary, wi, report,
                 outstanding, storeFailures, walksAtStart, storeFailed,
                 summaryRequests, updatedIds, simplifyVars, dbApiVars,
                 mapVars, metricVars, ctxVars>>

\* Mutant of InsertThrows: the per-file catch does not count the file.
InsertThrowsUncounted ==
  /\ pc = "insert"
  /\ StoreThrows
  /\ outcome' = Append(outcome, Counted(walk.sourceFile, "failed", "store", SummaryState))
  /\ i' = i + 1
  /\ pc' = "loop"
  /\ UNCHANGED <<walks, dbOpen, dir, dirExists, forceRebuild, statusOnly,
                 summariesOnly, exitCode, exitPath, gpxFiles, processedFiles,
                 ollamaAvailable, filesToProcess, startIndex, walk, summary,
                 successCount, errorCount, summaryCount, totalOriginalPoints,
                 totalSimplifiedPoints, walksWithoutSummary, wi, report,
                 outstanding, walksAtStart, summaryRequests, updatedIds,
                 simplifyVars, dbApiVars, mapVars, metricVars, ctxVars>>

\* main lines 581, 602-605: insertWalk throws inside the per-file try; the
\* catch counts the file as failed and the loop goes on.
InsertThrows ==
  /\ pc = "insert"
  /\ StoreThrows
  /\ errorCount' = errorCount + 1
  /\ outcome' = Append(outcome, Counted(walk.sourceFile, "failed", "store", SummaryState))
  /\ i' = i + 1
  /\ pc' = "loop"
  /\ UNCHANGED <<walks, dbOpen, dir, dirExists, forceRebuild, statusOnly,
                 summariesOnly, exitCode, exitPath, gpxFiles, processedFiles,
                 ollamaAvailable, filesToProcess, startIndex, walk, summary,
                 successCount, summaryCount, totalOriginalPoints,
                 totalSimplifiedPoints, walksWithoutSummary, wi, report,
                 outstanding, walksAtStart, summaryRequests, updatedIds,
                 simplifyVars, dbApiVars, mapVars, metricVars, ctxVars>>

\* main lines 608-626: the summary report, getWalkCount(), closeDb().
Finish ==
  /\ pc = "loop"
  /\ i >= Len(filesToProcess)
  /\ dbOpen' = FALSE
  /\ Exit(0, "complete")
  /\ UNCHANGED <<walks, dir, dirExists, forceRebuild, statusOnly,
                 summariesOnly, gpxFiles, processedFiles, ollamaAvailable,
                 filesToProcess, i, startIndex, walk, summary, successCount,
                 errorCount, summaryCount, totalOriginalPoints,
                 totalSimplifiedPoints, walksWithoutSummary, wi, report,
                 outstanding, storeFailures, walksAtStart, outcome,
                 storeFailed, summaryRequests, updatedIds, simplifyVars,
                 dbApiVars, mapVars, metricVars, ctxVars>>

\* main line 622: getWalkCount() throws.
FinishThrows ==
  /\ pc = "loop"
  /\ i >= Len(filesToProcess)
  /\ StoreThrows
  /\ Fatal
  /\ UNCHANGED <<walks, dir, dirExists, forceRebuild, statusOnly,
                 summariesOnly, gpxFiles, processedFiles, ollamaAvailable,
                 filesToProcess, i, startIndex, walk, summary, successCount,
                 errorCount, summaryCount, totalOriginalPoints,
                 totalSimplifiedPoints, walksWithoutSummary, wi, report,
                 outstanding, walksAtStart, outcome, summaryRequests,
                 updatedIds, simplifyVars, dbApiVars, mapVars, metricVars, ctxVars>>

----------------------------------------------------------------------------
(* Map.tsx: viewport culling and level of detail *)

HIGH_DETAIL_ZOOM == 14

\* Below this zoom every walk is shown (line 166).
LowZoom == 10

\* Longitudes and latitudes are offsets from the centre of INITIAL_VIEW_STATE
\* (lines 69-75), in units of 1 / 2^15 degree, so that the ranges
\* 180 / 2^zoom and 360 / 2^zoom * (1920 / 1080) are whole numbers for every
\* whole zoom up to 15.  The rounding of IEEE doubles is not modelled.
UnitsPerDegree == 2 ^ 15

INITIAL_VIEW_STATE == [zoom |-> 12, longitude |-> 0, latitude |-> 0]

\* selectedWalk = null
NoMapWalk ==
  [id |-> 0, coordinates |-> <<>>, hasFull |-> FALSE, coordinatesFull |-> <<>>,
   hasBounds |-> FALSE, bounds |-> [minLng |-> 0, maxLng |-> 0, minLat |-> 0, maxLat |-> 0]]

\* walk.bounds.maxLng < viewportBounds.minLng || ..., lines 114-119
\* Mutant: only a record lying west or south of the rectangle is told apart.
overlapsWestSouthOnly(a, b) ==
  ~(\/ a.maxLng < b.minLng
    \/ a.maxLat < b.minLat)

overlaps(a, b) ==
  ~(\/ a.maxLng < b.minLng
    \/ a.minLng > b.maxLng
    \/ a.maxLat < b.minLat
    \/ a.minLat > b.maxLat)

isWalkInViewport(w, viewportBounds) ==
  IF ~w.hasBounds THEN TRUE
  ELSE overlaps(w.bounds, viewportBounds)

\* getViewportBounds with the default width 1920 and height 1080
getViewportBounds(vs) ==
  LET latRange == (180 * UnitsPerDegree) \div (2 ^ vs.zoom)
      lngRange == (((360 * UnitsPerDegree) \div (2 ^ vs.zoom)) * 1920) \div 1080
  IN [minLng |-> vs.longitude - lngRange \div 2,
      maxLng |-> vs.longitude + lngRange \div 2,
      minLat |-> vs.latitude - latRange \div 2,
      maxLat |-> vs.latitude + latRange \div 2]

RECURSIVE FilterInViewport(_, _)
FilterInViewport(ws, viewportBounds) ==
  IF ws = <<>> THEN <<>>
  ELSE (IF isWalkInViewport(Head(ws), viewportBounds) THEN <<Head(ws)>> ELSE <<>>)
         \o FilterInViewport(Tail(ws), viewportBounds)

\* Mutant: the culling is applied at every zoom.
visibleWalksMemoAlwaysCulls(ws, vs) == FilterInViewport(ws, getViewportBounds(vs))

\* the memo of lines 163-169
visibleWalksMemo(ws, vs) ==
  IF vs.zoom < LowZoom THEN ws
  ELSE FilterInViewport(ws, getViewportBounds(vs))

\* line 155
useHighDetail(vs) == vs.zoom >= HIGH_DETAIL_ZOOM

\* Mutant: the selected walk is given its full coordinates only when zoomed in.
getWalkCoordinatesZoomOnly(w, forceHighDetail, selected, vs) ==
  IF useHighDetail(vs) /\ w.hasFull THEN w.coordinatesFull ELSE w.coordinates

\* lines 222-239; walk.coordinatesFull || walk.coordinates
getWalkCoordinates(w, forceHighDetail, selected, vs) ==
  IF forceHighDetail \/ (selected.id # NoMapWalk.id /\ selected.id = w.id)
  THEN (IF w.hasFull THEN w.coordinatesFull ELSE w.coordinates)
  ELSE IF useHighDetail(vs) /\ w.hasFull THEN w.coordinatesFull
  ELSE w.coordinates

(***************************************************************************)
(* preprocess-gpx.ts: the metrics of a track.  Times are milliseconds and  *)
(* whole minutes apart, distances are kilometres and multiples of 5, so    *)
(* the divisions of the code are exact.                                    *)
(***************************************************************************)
MaxPoints == 3

\* WalkPoint (lines 40-45), without the position: `time` and `elevation` are
\* optional.
WalkPoint(hasTime, time, hasElevation, ele) ==
  [hasTime |-> hasTime, time |-> time, hasElevation |-> hasElevation, elevation |-> ele]

PointTimes == {60000, 180000}
PointElevations == {0, 2, 5}

WalkPoints ==
  {WalkPoint(FALSE, 0, FALSE, 0)}
    \cup {WalkPoint(TRUE, t, FALSE, 0) : t \in PointTimes}
    \cup {WalkPoint(FALSE, 0, TRUE, e) : e \in PointElevations}
    \cup {WalkPoint(TRUE, t, TRUE, e) : t \in PointTimes, e \in PointElevations}

PointSeqs == UNION {[1..n -> WalkPoints] : n \in 0..MaxPoints}

\* The values of calculatePathDistance(points) (lines 80-91); the haversine
\* formula is not modelled.
Distances == {0, 5}

\* points.find((p) => p.time): the index of the first point from k on that has
\* a time, 0 when there is none.
RECURSIVE FindTime(_, _)
FindTime(ps, k) ==
  IF k > Len(ps) THEN 0
  ELSE IF ps[k].hasTime THEN k
  ELSE FindTime(ps, k + 1)

\* [...points].reverse().find((p) => p.time)
RECURSIVE FindTimeReverse(_, _)
FindTimeReverse(ps, k) ==
  IF k < 1 THEN 0
  ELSE IF ps[k].hasTime THEN k
  ELSE FindTimeReverse(ps, k - 1)

\* Mutant: the distance in time between the two points, whichever comes first.
calculateDurationAbs(ps) ==
  IF Len(ps) < 2 THEN 0
  ELSE LET firstPoint == FindTime(ps, 1)
           lastPoint == FindTimeReverse(ps, Len(ps))
       IN IF firstPoint = 0 \/ lastPoint = 0 THEN 0
          ELSE Abs(ps[lastPoint].time - ps[firstPoint].time) \div (1000 * 60)

\* calculateDuration lines 96-108.  The times differ by whole minutes, so the
\* division is exact; a negative difference is divided as its absolute value.
calculateDuration(ps) ==
  IF Len(ps) < 2 THEN 0
  ELSE LET firstPoint == FindTime(ps, 1)
           lastPoint == FindTimeReverse(ps, Len(ps))
       IN IF firstPoint = 0 \/ lastPoint = 0 THEN 0
          ELSE LET startTime == ps[firstPoint].time
                   endTime == ps[lastPoint].time
               IN IF endTime < startTime
                  THEN 0 - ((startTime - endTime) \div (1000 * 60))
                  ELSE (endTime - startTime) \div (1000 * 60)

\* Mutant: an elevation is compared with the last elevation known, across the
\* points that have none.
RECURSIVE calculateElevationCarry(_, _, _, _, _)
calculateElevationCarry(ps, k, known, last, acc) ==
  IF k > Len(ps) THEN acc
  ELSE IF ~ps[k].hasElevation THEN calculateElevationCarry(ps, k + 1, known, last, acc)
  ELSE IF ~known THEN calculateElevationCarry(ps, k + 1, TRUE, ps[k].elevation, acc)
  ELSE LET diff == ps[k].elevation - last
       IN calculateElevationCarry(ps, k + 1, TRUE, ps[k].elevation,
            IF diff > 0 THEN [gain |-> acc.gain + diff, loss |-> acc.loss]
            ELSE [gain |-> acc.gain, loss |-> acc.loss + Abs(diff)])

\* calculateElevation lines 121-132: the loop from index k (1-based: the pair
\* of points k - 1 and k) with the sums so far.
RECURSIVE ElevationLoop(_, _, _)
ElevationLoop(ps, k, acc) ==
  IF k > Len(ps) THEN acc
  ELSE IF ps[k - 1].hasElevation /\ ps[k].hasElevation
       THEN LET diff == ps[k].elevation - ps[k - 1].elevation
            IN ElevationLoop(ps, k + 1,
                 IF diff > 0 THEN [gain |-> acc.gain + diff, loss |-> acc.loss]
                 ELSE [gain |-> acc.gain, loss |-> acc.loss + Abs(diff)])
       ELSE ElevationLoop(ps, k + 1, acc)

\* Mutant of calculateElevation.
calculateElevationLastKnown(ps) ==
  calculateElevationCarry(ps, 1, FALSE, 0, [gain |-> 0, loss |-> 0])

\* calculateElevation lines 113-135
calculateElevation(ps) == ElevationLoop(ps, 2, [gain |-> 0, loss |-> 0])

\* estimateDuration lines 140-143
estimateDuration(distanceKm) == (distanceKm \div 5) * 60

NoElevation == [gain |-> 0, loss |-> 0]

MetricIdle ==
  /\ points = <<>>
  /\ walkDistance = 0
  /\ duration = 0
  /\ elevation = NoElevation
  /\ walkDuration = 0
  /\ mpc = "none"

\* WalksContext: `null` for selectedWalk and for overlayPosition.
NoSelectedWalk == [id |-> 0, coordinatesFull |-> FALSE]

NoPosition == [x |-> -1, y |-> -1]

WalkIds == {1, 2}

\* The state of WalksProvider as useState and useRef construct it (lines 168-187),
\* with no request made.
CtxIdle ==
  /\ ctxWalks = <<>>
  /\ isLoading = TRUE
  /\ ctxSelectedWalk = NoSelectedWalk
  /\ overlappingWalks = <<>>
  /\ overlayPosition = NoPosition
  /\ fullCoordinatesCache = {}
  /\ reloads = 0
  /\ fetching = [id \in WalkIds |-> 0]
  /\ fetched = [id \in WalkIds |-> 0]
  /\ lastResponse = 0

MapIdle ==
  /\ mapWalks = <<>>
  /\ selectedWalk = NoMapWalk
  /\ viewState = INITIAL_VIEW_STATE
  /\ visibleWalks = <<>>
  /\ layerPaths = <<>>
  /\ selectedPath = <<>>

\* The variables of a run as the process starts.
RunStart ==
  /\ pc = "start"
  /\ exitCode = -1
  /\ exitPath = "running"
  /\ gpxFiles = <<>>
  /\ processedFiles = {}
  /\ ollamaAvailable = FALSE
  /\ filesToProcess = <<>>
  /\ i = 0
  /\ startIndex = 0
  /\ walk = NoParsedWalk
  /\ summary = NoSummary
  /\ successCount = 0
  /\ errorCount = 0
  /\ summaryCount = 0
  /\ totalOriginalPoints = 0
  /\ totalSimplifiedPoints = 0
  /\ walksWithoutSummary = <<>>
  /\ wi = 0
  /\ report = NoReport
  /\ outstanding = 0
  /\ storeFailures = 0
  /\ outcome = <<>>
  /\ storeFailed = FALSE
  /\ summaryRequests = 0
  /\ updatedIds = {}

\* The directory and the command line of a run.
Environment ==
  /\ dir \in [Files -> {"absent", "ok", "bad"}]
  /\ dirExists \in BOOLEAN
  /\ ~dirExists => \A f \in Files : dir[f] = "absent"
  /\ forceRebuild \in BOOLEAN
  /\ statusOnly \in BOOLEAN
  /\ summariesOnly \in BOOLEAN

SimplifyIdle ==
  /\ op = "none"
  /\ coordinates = <<>>
  /\ tolerance = 0
  /\ targetCount = 0
  /\ minPoints = 0
  /\ lowTolerance = 0
  /\ highTolerance = 0
  /\ result = <<>>
  /\ iterations = 0
  /\ returned = <<>>
  /\ spc = "none"

NoRow == WalkRow(WithSummary(NoParsedWalk, NoSummary))
NoQuery == [minLng |-> 0, maxLng |-> 0, minLat |-> 0, maxLat |-> 0]

DbApiIdle ==
  /\ lastCall = "none"
  /\ lastRow = NoRow
  /\ walksBefore = {}
  /\ queryBounds = NoQuery
  /\ queryResult = {}

PipeIdle ==
  /\ RunStart
  /\ walksAtStart = {}
  /\ dir = [f \in Files |-> "absent"]
  /\ dirExists = FALSE
  /\ forceRebuild = FALSE
  /\ statusOnly = FALSE
  /\ summariesOnly = FALSE

\* The first run starts on an empty store.
Init ==
  /\ walks = {}
  /\ dbOpen = FALSE
  /\ walksAtStart = {}
  /\ Environment
  /\ RunStart
  /\ SimplifyIdle
  /\ DbApiIdle
  /\ MapIdle
  /\ MetricIdle
  /\ CtxIdle

\* The process has exited: nothing of its memory is left, and the directory
\* and the command line of the next run are not those of this one.
ProcessExit ==
  /\ pc = "done"
  /\ walksAtStart' = walks
  /\ dir' = [f \in Files |-> "absent"]
  /\ dirExists' = FALSE
  /\ forceRebuild' = FALSE
  /\ statusOnly' = FALSE
  /\ summariesOnly' = FALSE
  /\ pc' = "exited"
  /\ exitCode' = -1
  /\ exitPath' = "running"
  /\ gpxFiles' = <<>>
  /\ processedFiles' = {}
  /\ ollamaAvailable' = FALSE
  /\ filesToProcess' = <<>>
  /\ i' = 0
  /\ startIndex' = 0
  /\ walk' = NoParsedWalk
  /\ summary' = NoSummary
  /\ successCount' = 0
  /\ errorCount' = 0
  /\ summaryCount' = 0
  /\ totalOriginalPoints' = 0
  /\ totalSimplifiedPoints' = 0
  /\ walksWithoutSummary' = <<>>
  /\ wi' = 0
  /\ report' = NoReport
  /\ outstanding' = 0
  /\ storeFailures' = 0
  /\ outcome' = <<>>
  /\ storeFailed' = FALSE
  /\ summaryRequests' = 0
  /\ updatedIds' = {}
  /\ UNCHANGED <<walks, dbOpen, simplifyVars, dbApiVars, mapVars, metricVars, ctxVars>>

\* The script is run again, on whatever the directory then holds.
NewRun ==
  /\ pc = "exited"
  /\ dir' \in [Files -> {"absent", "ok", "bad"}]
  /\ dirExists' \in BOOLEAN
  /\ ~dirExists' => \A f \in Files : dir'[f] = "absent"
  /\ forceRebuild' \in BOOLEAN
  /\ statusOnly' \in BOOLEAN
  /\ summariesOnly' \in BOOLEAN
  /\ pc' = "start"
  /\ UNCHANGED <<storeVars, simplifyVars, dbApiVars, exitCode, exitPath, discVars,
                 loopVars, counterVars, sumVars, histVars, ollamaAvailable, report,
                 outstanding, storeFailures, mapVars, metricVars, ctxVars>>

Next ==
  \/ StartNoDir \/ StartNoFiles \/ StartDiscover \/ StartDiscoverThrows
  \/ StatusMode \/ StatusModeThrows
  \/ SummariesNone \/ SummariesStart \/ SummariesStartThrows
  \/ SummariesUnavailable \/ SummariesAvailable
  \/ SummariesRequest \/ SummariesRequestThrows
  \/ SummariesResponseOk \/ SummariesUpdateThrows \/ SummariesResponseFails
  \/ SummariesFinish \/ SummariesFinishThrows
  \/ CheckOllama
  \/ SelectForce \/ SelectForceThrows
  \/ SelectIncremental \/ SelectNothing \/ SelectNothingThrows
  \/ ParseOk \/ ParseFails
  \/ SummaryOk \/ SummaryFails
  \/ InsertOk \/ InsertThrows
  \/ Finish \/ FinishThrows
  \/ ProcessExit \/ NewRun

Spec == Init /\ [][Next]_vars

----------------------------------------------------------------------------
(* One call of simplifyPath *)

InitSimplifyPath ==
  /\ op = "simplifyPath"
  /\ coordinates \in CoordinateSeqs \cup CollinearTracks \cup {ScenarioTrack}
  /\ tolerance \in Tolerances
  /\ targetCount = 0 /\ minPoints = 0
  /\ lowTolerance = 0 /\ highTolerance = 0
  /\ result = <<>> /\ iterations = 0
  /\ returned = <<>>
  /\ spc = "call"
  /\ walks = {} /\ dbOpen = FALSE
  /\ DbApiIdle
  /\ MapIdle
  /\ MetricIdle
  /\ CtxIdle
  /\ PipeIdle

CallSimplifyPath ==
  /\ op = "simplifyPath" /\ spc = "call"
  /\ IF Overflows(coordinates, tolerance)
     THEN /\ spc' = "threw"
          /\ UNCHANGED returned
     ELSE /\ returned' = simplifyPath(coordinates, tolerance)
          /\ spc' = "returned"
  /\ UNCHANGED <<op, coordinates, tolerance, targetCount, minPoints,
                 lowTolerance, highTolerance, result, iterations,
                 storeVars, dbApiVars, pipeVars, mapVars, metricVars, ctxVars>>

SpecSimplify == InitSimplifyPath /\ [][CallSimplifyPath]_vars

----------------------------------------------------------------------------
(* One call of simplifyToCount, one action per stretch of its body *)

InitSimplifyToCount ==
  /\ op = "simplifyToCount"
  /\ \E c \in CountCalls :
       /\ coordinates = c[1]
       /\ targetCount = c[2]
       /\ minPoints = c[3]
  /\ tolerance = 0
  /\ lowTolerance = 0 /\ highTolerance = 0
  /\ result = <<>> /\ iterations = 0
  /\ returned = <<>>
  /\ spc = "call"
  /\ walks = {} /\ dbOpen = FALSE
  /\ DbApiIdle
  /\ MapIdle
  /\ MetricIdle
  /\ CtxIdle
  /\ PipeIdle

\* lines 91-100
CountStart ==
  /\ op = "simplifyToCount" /\ spc = "call"
  /\ IF Len(coordinates) <= targetCount
     THEN /\ returned' = coordinates
          /\ spc' = "returned"
          /\ UNCHANGED <<lowTolerance, highTolerance, result, iterations>>
     ELSE /\ lowTolerance' = LowToleranceInit
          /\ highTolerance' = HighToleranceInit
          /\ result' = coordinates
          /\ iterations' = 0
          /\ spc' = "loop"
          /\ UNCHANGED returned
  /\ UNCHANGED <<op, coordinates, tolerance, targetCount, minPoints,
                 storeVars, dbApiVars, pipeVars, mapVars, metricVars, ctxVars>>

\* lines 102-121: one iteration of the binary search
CountIterate ==
  /\ op = "simplifyToCount" /\ spc = "loop"
  /\ iterations < maxIterations
  /\ LET midTolerance == (lowTolerance + highTolerance) \div 2
         r == simplifyPath(coordinates, midTolerance)
     IN /\ result' = r
        /\ IF Len(r) < minPoints
           THEN /\ highTolerance' = midTolerance
                /\ iterations' = iterations + 1
                /\ UNCHANGED <<lowTolerance, spc>>
           ELSE IF 2 * Len(r) > 3 * targetCount
           THEN /\ lowTolerance' = midTolerance
                /\ iterations' = iterations + 1
                /\ UNCHANGED <<highTolerance, spc>>
           ELSE IF 2 * Len(r) < targetCount
           THEN /\ highTolerance' = midTolerance
                /\ iterations' = iterations + 1
                /\ UNCHANGED <<lowTolerance, spc>>
           ELSE /\ spc' = "after"
                /\ UNCHANGED <<lowTolerance, highTolerance, iterations>>
  /\ UNCHANGED <<op, coordinates, tolerance, targetCount, minPoints, returned,
                 storeVars, dbApiVars, pipeVars, mapVars, metricVars, ctxVars>>

\* lines 123-128
CountFinish ==
  /\ op = "simplifyToCount"
  /\ spc = "after" \/ (spc = "loop" /\ iterations >= maxIterations)
  /\ returned' = IF Len(result) < minPoints
                 THEN simplifyPath(coordinates, lowTolerance)
                 ELSE result
  /\ spc' = "returned"
  /\ UNCHANGED <<op, coordinates, tolerance, targetCount, minPoints,
                 lowTolerance, highTolerance, result, iterations,
                 storeVars, dbApiVars, pipeVars, mapVars, metricVars, ctxVars>>

NextCount == CountStart \/ CountIterate \/ CountFinish

SpecCount == InitSimplifyToCount /\ [][NextCount]_vars

----------------------------------------------------------------------------
(* The operations of db.ts called one after another *)

MaxDbIds == 2

DbIds == 1..MaxDbIds

\* What a walk passed to insertWalk carries besides its id:
\* <<sourceFile, coordinatesFull, summary>>
DbPayloads ==
  { <<"a.gpx", Track("c.gpx"), NoSummary>>,
    <<"a.gpx", <<(<<0, 0>>)>>, SummaryText>>,
    <<"b.gpx", <<(<<1, 0>>), (<<0, 0>>), (<<3, 0>>), (<<2, 0>>)>>, NoSummary>>,
    <<Undefined, <<(<<-2, 1>>), (<<-3, 2>>)>>, NoSummary>> }

DbWalks ==
  {[id |-> id, sourceFile |-> pl[1], coordinatesFull |-> pl[2],
    coordinatesSimplified |-> simplifyPath(pl[2], DefaultTolerance),
    color |-> 0, summary |-> pl[3]] :
     id \in DbIds, pl \in DbPayloads}

InitDb ==
  /\ walks = {}
  /\ dbOpen = FALSE
  /\ DbApiIdle
  /\ MapIdle
  /\ MetricIdle
  /\ CtxIdle
  /\ SimplifyIdle
  /\ PipeIdle

\* queryBounds and queryResult describe the last call when it was a query.
NoQueryMade == queryBounds' = NoQuery /\ queryResult' = {}

DbInsertWalk ==
  \E w \in DbWalks :
    /\ walksBefore' = walks
    /\ walks' = insertWalk(walks, w)
    /\ lastRow' = WalkRow(w)
    /\ lastCall' = "insertWalk"
    /\ dbOpen' = TRUE
    /\ NoQueryMade
    /\ UNCHANGED <<simplifyVars, pipeVars, mapVars, metricVars, ctxVars>>

DbUpdateWalkSummary ==
  \E id \in DbIds :
    /\ walksBefore' = walks
    /\ walks' = updateWalkSummary(walks, id, SummaryText)
    /\ lastCall' = "updateWalkSummary"
    /\ dbOpen' = TRUE
    /\ NoQueryMade
    /\ UNCHANGED <<lastRow, simplifyVars, pipeVars, mapVars, metricVars, ctxVars>>

DbClearWalks ==
  /\ walksBefore' = walks
  /\ walks' = clearWalks(walks)
  /\ lastCall' = "clearWalks"
  /\ dbOpen' = TRUE
  /\ NoQueryMade
  /\ UNCHANGED <<lastRow, simplifyVars, pipeVars, mapVars, metricVars, ctxVars>>

\* closeDb lines 255-260
DbCloseDb ==
  /\ dbOpen
  /\ dbOpen' = FALSE
  /\ walksBefore' = walks
  /\ lastCall' = "closeDb"
  /\ NoQueryMade
  /\ UNCHANGED <<walks, lastRow, simplifyVars, pipeVars, mapVars, metricVars, ctxVars>>

\* The rectangles getWalksInBounds is called with: one whose west edge is the
\* east edge of the track from 0 to 3, one east of the track from -3 to -2,
\* one north of every track, and a single point.
QueryBounds ==
  { [minLng |-> 3, maxLng |-> 5, minLat |-> 0, maxLat |-> 0],
    [minLng |-> -1, maxLng |-> 4, minLat |-> -1, maxLat |-> 3],
    [minLng |-> -5, maxLng |-> 5, minLat |-> 3, maxLat |-> 4],
    [minLng |-> -3, maxLng |-> -3, minLat |-> 2, maxLat |-> 2] }

DbGetWalksInBounds ==
  \E q \in QueryBounds :
    /\ queryBounds' = q
    /\ queryResult' = getWalksInBounds(walks, q.minLng, q.maxLng, q.minLat, q.maxLat)
    /\ walksBefore' = walks
    /\ lastCall' = "getWalksInBounds"
    /\ dbOpen' = TRUE
    /\ UNCHANGED <<walks, lastRow, simplifyVars, pipeVars, mapVars, metricVars, ctxVars>>

NextDb ==
  DbInsertWalk \/ DbUpdateWalkSummary \/ DbClearWalks \/ DbCloseDb \/ DbGetWalksInBounds

SpecDb == InitDb /\ [][NextDb]_vars

----------------------------------------------------------------------------
(* The Map component: props, view state and what it renders *)

MapWalk(id, coords, hasFull, full, hasBounds, b) ==
  [id |-> id, coordinates |-> coords, hasFull |-> hasFull, coordinatesFull |-> full,
   hasBounds |-> hasBounds,
   bounds |-> [minLng |-> b[1], maxLng |-> b[2], minLat |-> b[3], maxLat |-> b[4]]]

\* The walks the prop `walks` is drawn from.  At zoom 14 the viewport centred
\* on the origin reaches 640 units east and west and 180 units north and south;
\* at zoom 9 it reaches 20480 units east and west, so walk 4 lies outside it
\* at every zoom of ViewStates.
MapWalkPool ==
  << MapWalk(1, <<(<<0, 0>>), (<<10, 10>>)>>, TRUE,
             <<(<<0, 0>>), (<<5, 3>>), (<<10, 10>>)>>, TRUE, <<0, 10, 0, 10>>),
     MapWalk(2, <<(<<640, 0>>), (<<700, 5>>)>>, FALSE, <<>>, TRUE, <<640, 700, 0, 5>>),
     MapWalk(3, <<(<<641, 0>>), (<<700, 5>>)>>, TRUE,
             <<(<<641, 0>>), (<<650, 5>>), (<<700, 5>>)>>, TRUE, <<641, 700, 0, 5>>),
     MapWalk(4, <<(<<-30000, 0>>), (<<-21000, 9>>)>>, TRUE,
             <<(<<-30000, 0>>), (<<-25000, 9>>), (<<-21000, 9>>)>>, TRUE,
             <<-30000, -21000, 0, 9>>),
     MapWalk(5, <<(<<-30000, 7>>), (<<-21000, 7>>)>>, FALSE, <<>>, FALSE, <<0, 0, 0, 0>>),
     MapWalk(6, <<(<<0, 181>>), (<<9, 300>>)>>, TRUE,
             <<(<<0, 181>>), (<<4, 200>>), (<<9, 300>>)>>, TRUE, <<0, 9, 181, 300>>) >>

RECURSIVE SubSeqs(_)
SubSeqs(ws) ==
  IF ws = <<>> THEN {<<>>}
  ELSE LET rest == SubSeqs(Tail(ws))
       IN rest \cup {<<Head(ws)>> \o t : t \in rest}

\* The values of the prop `walks`: the pool with at most one walk left out, the
\* lists of at most one walk, and the pool in the opposite order.
MapWalkLists ==
  {ws \in SubSeqs(MapWalkPool) : Len(ws) <= 1 \/ Len(ws) >= Len(MapWalkPool) - 1}
    \cup {[n \in 1..Len(MapWalkPool) |-> MapWalkPool[Len(MapWalkPool) + 1 - n]]}

\* The values of the prop `selectedWalk`: null, a walk of the pool, or walk 2
\* with its full coordinates loaded.
SelectableWalks ==
  {NoMapWalk} \cup {MapWalkPool[n] : n \in 1..Len(MapWalkPool)}
    \cup {MapWalk(2, <<(<<640, 0>>), (<<700, 5>>)>>, TRUE,
                  <<(<<640, 0>>), (<<660, 1>>), (<<700, 5>>)>>, TRUE, <<640, 700, 0, 5>>)}

ViewStates ==
  {[zoom |-> z, longitude |-> c[1], latitude |-> c[2]] :
     z \in {9, 10, 12, 13, 14, 15}, c \in {<<0, 0>>, <<1, 0>>, <<0, -200>>}}

\* What one render computes from the props and the view state: the memo
\* visibleWalks, the paths of the "walks-layer" (lines 317-320) and the path of
\* the selected-route layers (lines 245-250).
Rendered(ws, sel, vs) ==
  LET visible == visibleWalksMemo(ws, vs)
  IN [visibleWalks |-> visible,
      layerPaths |-> [k \in 1..Len(visible) |->
                        getWalkCoordinates(visible[k], FALSE, sel, vs)],
      selectedPath |-> IF sel.id = NoMapWalk.id THEN <<>>
                       ELSE getWalkCoordinates(sel, TRUE, sel, vs)]

\* The component is mounted before the walks are loaded.
InitMap ==
  /\ mapWalks = <<>>
  /\ selectedWalk = NoMapWalk
  /\ viewState = INITIAL_VIEW_STATE
  /\ visibleWalks = Rendered(mapWalks, selectedWalk, viewState).visibleWalks
  /\ layerPaths = Rendered(mapWalks, selectedWalk, viewState).layerPaths
  /\ selectedPath = Rendered(mapWalks, selectedWalk, viewState).selectedPath
  /\ walks = {} /\ dbOpen = FALSE
  /\ DbApiIdle
  /\ SimplifyIdle
  /\ PipeIdle
  /\ MetricIdle
  /\ CtxIdle

\* line 569: onViewStateChange={({ viewState: vs }) => setViewState(vs)}
onViewStateChange ==
  \E vs \in ViewStates :
    LET r == Rendered(mapWalks, selectedWalk, vs)
    IN /\ viewState' = vs
       /\ visibleWalks' = r.visibleWalks
       /\ layerPaths' = r.layerPaths
       /\ selectedPath' = r.selectedPath
       /\ UNCHANGED <<mapWalks, selectedWalk, simplifyVars, storeVars, dbApiVars,
                      pipeVars, metricVars, ctxVars>>

\* The parent renders the component with a new `walks` prop (lines 131-136).
MapWalksChange ==
  \E ws \in MapWalkLists :
    LET r == Rendered(ws, selectedWalk, viewState)
    IN /\ mapWalks' = ws
       /\ visibleWalks' = r.visibleWalks
       /\ layerPaths' = r.layerPaths
       /\ selectedPath' = r.selectedPath
       /\ UNCHANGED <<selectedWalk, viewState, simplifyVars, storeVars, dbApiVars,
                      pipeVars, metricVars, ctxVars>>

\* The parent renders the component with a new `selectedWalk` prop.
MapSelectedWalkChange ==
  \E sel \in SelectableWalks :
    LET r == Rendered(mapWalks, sel, viewState)
    IN /\ selectedWalk' = sel
       /\ visibleWalks' = r.visibleWalks
       /\ layerPaths' = r.layerPaths
       /\ selectedPath' = r.selectedPath
       /\ UNCHANGED <<mapWalks, viewState, simplifyVars, storeVars, dbApiVars,
                      pipeVars, metricVars, ctxVars>>

NextMap == onViewStateChange \/ MapWalksChange \/ MapSelectedWalkChange

SpecMap == InitMap /\ [][NextMap]_vars

(***************************************************************************)
(* parseGPXFile: the metrics of one track (lines 269-287)                  *)
(***************************************************************************)
InitMetrics ==
  /\ points \in PointSeqs
  /\ walkDistance \in Distances
  /\ duration = 0
  /\ elevation = NoElevation
  /\ walkDuration = 0
  /\ mpc = "parsed"
  /\ walks = {} /\ dbOpen = FALSE
  /\ DbApiIdle
  /\ SimplifyIdle
  /\ PipeIdle
  /\ MapIdle
  /\ CtxIdle

\* lines 270-272: duration and elevation are computed from the points
CalculateMetrics ==
  /\ mpc = "parsed"
  /\ duration' = calculateDuration(points)
  /\ elevation' = calculateElevation(points)
  /\ mpc' = "measured"
  /\ UNCHANGED <<points, walkDistance, walkDuration, simplifyVars, storeVars, dbApiVars,
                 pipeVars, mapVars, ctxVars>>

\* line 286: duration: duration > 0 ? duration : estimateDuration(distance)
ReturnWalk ==
  /\ mpc = "measured"
  /\ walkDuration' = IF duration > 0 THEN duration ELSE estimateDuration(walkDistance)
  /\ mpc' = "returned"
  /\ UNCHANGED <<points, walkDistance, duration, elevation, simplifyVars, storeVars,
                 dbApiVars, pipeVars, mapVars, ctxVars>>

NextMetrics == CalculateMetrics \/ ReturnWalk

SpecMetrics == InitMetrics /\ [][NextMetrics]_vars

(***************************************************************************)
(* WalksContext: WalksProvider (src/app/page.tsx lines 167-389)            *)
(*                                                                         *)
(* A walk of the context is its id and whether it carries the optional     *)
(* field coordinatesFull (pointsFull is set and dropped together with it). *)
(* React applies the state updates of one handler, and of one              *)
(* continuation after an await, in one batch, so each is one step.         *)
(***************************************************************************)
MaxFetching == 2

MaxReloads == 1

\* lines 202-236: the walks built from the response of /api/walks carry no
\* coordinatesFull.
ApiWalks == <<[id |-> 1, coordinatesFull |-> FALSE], [id |-> 2, coordinatesFull |-> FALSE]>>

\* data.walks: absent or empty, or the stored walks.
ApiWalkLists == {<<>>, ApiWalks}

\* the pointer positions of a click: info.x || 0, info.y || 0 (Map.tsx lines 404-405)
ClickPositions == {[x |-> 0, y |-> 0], [x |-> 3, y |-> 4]}

\* the arrays handleWalkClick may be given: walks of the list the map draws
PickedLists ==
  {<<>>} \cup {<<w>> : w \in Range(ctxWalks)}
         \cup (IF Len(ctxWalks) > 1 THEN {ctxWalks} ELSE {})

InitCtx ==
  /\ ctxWalks = <<>>
  /\ isLoading = TRUE
  /\ ctxSelectedWalk = NoSelectedWalk
  /\ overlappingWalks = <<>>
  /\ overlayPosition = NoPosition
  /\ fullCoordinatesCache = {}
  /\ reloads = 1              \* lines 253-255: the effect calls refreshWalks on mount
  /\ fetching = [id \in WalkIds |-> 0]
  /\ fetched = [id \in WalkIds |-> 0]
  /\ lastResponse = 0
  /\ walks = {} /\ dbOpen = FALSE
  /\ DbApiIdle
  /\ SimplifyIdle
  /\ PipeIdle
  /\ MapIdle
  /\ MetricIdle

CtxOthersUnchanged ==
  UNCHANGED <<simplifyVars, storeVars, dbApiVars, pipeVars, mapVars, metricVars>>

\* lines 190-193: refreshWalks up to its await
refreshWalks ==
  /\ reloads < MaxReloads
  /\ isLoading' = TRUE
  /\ reloads' = reloads + 1
  /\ lastResponse' = 0
  /\ UNCHANGED <<ctxWalks, ctxSelectedWalk, overlappingWalks, overlayPosition,
                 fullCoordinatesCache, fetching, fetched>>
  /\ CtxOthersUnchanged

\* lines 194-250: the response of /api/walks arrives and parses
RefreshResponse ==
  /\ reloads > 0
  /\ \E list \in ApiWalkLists : ctxWalks' = list
  /\ isLoading' = FALSE
  /\ reloads' = reloads - 1
  /\ lastResponse' = 0
  /\ UNCHANGED <<ctxSelectedWalk, overlappingWalks, overlayPosition,
                 fullCoordinatesCache, fetching, fetched>>
  /\ CtxOthersUnchanged

\* lines 246-250: fetch or response.json() rejects
RefreshFails ==
  /\ reloads > 0
  /\ isLoading' = FALSE
  /\ reloads' = reloads - 1
  /\ lastResponse' = 0
  /\ UNCHANGED <<ctxWalks, ctxSelectedWalk, overlappingWalks, overlayPosition,
                 fullCoordinatesCache, fetching, fetched>>
  /\ CtxOthersUnchanged

\* lines 258-265: loadFullCoordinates up to its await: nothing when the cache
\* has the id, else one more fetch in flight
loadFullCoordinates(walkId) ==
  fetching' = IF walkId \in fullCoordinatesCache
                THEN fetching
                ELSE [fetching EXCEPT ![walkId] = @ + 1]

\* the fetch a selection would issue fits the bound
CanLoad(aWalk) ==
  IF aWalk = NoSelectedWalk \/ aWalk.coordinatesFull \/ aWalk.id \in fullCoordinatesCache
    THEN TRUE
    ELSE fetching[aWalk.id] < MaxFetching

\* lines 311-318, 332-339, 352-359: the three selections share this body
SetSelected(aWalk) ==
  /\ CanLoad(aWalk)
  /\ ctxSelectedWalk' = aWalk
  /\ overlappingWalks' = <<>>
  /\ overlayPosition' = NoPosition
  /\ IF aWalk # NoSelectedWalk /\ ~aWalk.coordinatesFull
       THEN loadFullCoordinates(aWalk.id)
       ELSE UNCHANGED fetching
  /\ lastResponse' = 0
  /\ UNCHANGED <<ctxWalks, isLoading, fullCoordinatesCache, reloads, fetched>>
  /\ CtxOthersUnchanged

\* lines 309-321: selectWalk(walk), walk null or a walk of the list
selectWalk ==
  \E aWalk \in {NoSelectedWalk} \cup Range(ctxWalks) : SetSelected(aWalk)

\* lines 323-348: handleWalkClick(picked); position is picked[0].x, picked[0].y
handleWalkClick(picked, position) ==
  IF Len(picked) = 0
    THEN /\ lastResponse' = 0
         /\ UNCHANGED <<ctxWalks, isLoading, ctxSelectedWalk, overlappingWalks,
                        overlayPosition, fullCoordinatesCache, reloads, fetching, fetched>>
         /\ CtxOthersUnchanged
    ELSE IF Len(picked) = 1
      THEN SetSelected(picked[1])
      ELSE /\ overlappingWalks' = picked
           /\ overlayPosition' = position
           /\ ctxSelectedWalk' = NoSelectedWalk
           /\ lastResponse' = 0
           /\ UNCHANGED <<ctxWalks, isLoading, fullCoordinatesCache, reloads,
                          fetching, fetched>>
           /\ CtxOthersUnchanged

WalkClick ==
  \E picked \in PickedLists : \E position \in ClickPositions :
    handleWalkClick(picked, position)

\* lines 350-362: handleOverlapSelect(walk), walk one of the popup's walks
handleOverlapSelect ==
  \E aWalk \in Range(overlappingWalks) : SetSelected(aWalk)

\* lines 364-367
closeOverlay ==
  /\ overlappingWalks' = <<>>
  /\ overlayPosition' = NoPosition
  /\ lastResponse' = 0
  /\ UNCHANGED <<ctxWalks, isLoading, ctxSelectedWalk, fullCoordinatesCache,
                 reloads, fetching, fetched>>
  /\ CtxOthersUnchanged

\* prev.map(...) of lines 289-295
WithFull(list, walkId) ==
  [k \in 1..Len(list) |->
     IF list[k].id = walkId THEN [list[k] EXCEPT !.coordinatesFull = TRUE] ELSE list[k]]

\* Mutant of FullDetailResponse: the answered walk becomes the selected walk.
FullDetailResponseSelects(walkId) ==
  /\ fetching[walkId] > 0
  /\ fetching' = [fetching EXCEPT ![walkId] = @ - 1]
  /\ fullCoordinatesCache' = fullCoordinatesCache \cup {walkId}
  /\ ctxWalks' = WithFull(ctxWalks, walkId)
  /\ ctxSelectedWalk' = [id |-> walkId, coordinatesFull |-> TRUE]
  /\ fetched' = [fetched EXCEPT ![walkId] = @ + 1]
  /\ lastResponse' = walkId
  /\ UNCHANGED <<isLoading, overlappingWalks, overlayPosition, reloads>>
  /\ CtxOthersUnchanged

\* lines 266-303: the response of /api/walks/<walkId> arrives with data.walk
FullDetailResponse(walkId) ==
  /\ fetching[walkId] > 0
  /\ fetching' = [fetching EXCEPT ![walkId] = @ - 1]
  /\ fullCoordinatesCache' = fullCoordinatesCache \cup {walkId}
  /\ ctxWalks' = WithFull(ctxWalks, walkId)
  /\ ctxSelectedWalk' = IF ctxSelectedWalk.id = walkId
                          THEN [ctxSelectedWalk EXCEPT !.coordinatesFull = TRUE]
                          ELSE ctxSelectedWalk
  /\ fetched' = [fetched EXCEPT ![walkId] = @ + 1]
  /\ lastResponse' = walkId
  /\ UNCHANGED <<isLoading, overlappingWalks, overlayPosition, reloads>>
  /\ CtxOthersUnchanged

FetchSucceeds == \E walkId \in WalkIds : FullDetailResponse(walkId)

\* lines 268, 304-306: the response has no data.walk, or the fetch rejects
FetchFails ==
  \E walkId \in WalkIds :
    /\ fetching[walkId] > 0
    /\ fetching' = [fetching EXCEPT ![walkId] = @ - 1]
    /\ lastResponse' = 0
    /\ UNCHANGED <<ctxWalks, isLoading, ctxSelectedWalk, overlappingWalks,
                   overlayPosition, fullCoordinatesCache, reloads, fetched>>
    /\ CtxOthersUnchanged

NextCtx ==
  \/ refreshWalks
  \/ RefreshResponse
  \/ RefreshFails
  \/ selectWalk
  \/ WalkClick
  \/ handleOverlapSelect
  \/ closeOverlay
  \/ FetchSucceeds
  \/ FetchFails

SpecCtx == InitCtx /\ [][NextCtx]_vars

\* Every request made is answered or fails: the browser settles each fetch.
\* The user's steps carry no fairness.
SpecCtxFair ==
  /\ SpecCtx
  /\ WF_vars(FetchSucceeds \/ FetchFails)
  /\ WF_vars(RefreshResponse \/ RefreshFails)

----------------------------------------------------------------------------
(* Claims about simplify.ts *)

\* C1: for every non-empty coords and every tol >= 0, simplifyPath(coords, tol)
\* starts with coords[first] and ends with coords[last].
C1_EndpointsPreserved ==
  (op = "simplifyPath" /\ spc = "returned" /\ coordinates # <<>>)
    => /\ returned # <<>>
       /\ returned[1] = coordinates[1]
       /\ returned[Len(returned)] = coordinates[Len(coordinates)]

\* C1 witness: a call that recursed and dropped an interior point.
C1_Witness ==
  /\ op = "simplifyPath" /\ spc = "returned"
  /\ Len(coordinates) = 4 /\ Len(returned) = 3
  /\ tolerance > 0

\* C2 (as claimed): with len(coords) >= minPoints, simplifyToCount returns at
\* least minPoints elements.
C2_AtLeastMinPoints ==
  (op = "simplifyToCount" /\ spc = "returned" /\ Len(coordinates) >= minPoints)
    => Len(returned) >= minPoints

Collinear(coords) ==
  \A a, b, c \in {coords[n] : n \in 1..Len(coords)} :
    (b[1] - a[1]) * (c[2] - a[2]) = (b[2] - a[2]) * (c[1] - a[1])

\* C12 (as claimed): at tolerance 0 every sequence of three or more collinear
\* points collapses to exactly two points.
C12_CollinearCollapses ==
  (op = "simplifyPath" /\ spc = "returned" /\ tolerance = 0
     /\ Len(coordinates) >= 3 /\ Collinear(coordinates))
    => Len(returned) = 2

\* C12 (amended): at tolerance 0 a sequence of three or more collinear points
\* whose first and last point differ collapses to <<first, last>>, in whatever
\* order the points lie along the line; when the first and last point are the
\* same, the chord is a point, the distance is the Euclidean one, and the
\* result has two points only if every point equals the first, and three
\* points (first, the farthest point, last) otherwise.
C12_CollinearCollapsesOpenChord ==
  (op = "simplifyPath" /\ spc # "call" /\ tolerance = 0
     /\ Len(coordinates) >= 3 /\ Collinear(coordinates))
    => /\ spc = "returned"
       /\ returned[1] = coordinates[1]
       /\ returned[Len(returned)] = coordinates[Len(coordinates)]
       /\ Len(returned) =
            IF coordinates[1] # coordinates[Len(coordinates)] THEN 2
            ELSE IF \A n \in 1..Len(coordinates) : coordinates[n] = coordinates[1] THEN 2
            ELSE 3

C12_Witness ==
  /\ op = "simplifyPath" /\ spc = "returned" /\ tolerance = 0
  /\ Collinear(coordinates)
  /\ Len(coordinates) = 4
  /\ Cardinality({coordinates[n] : n \in 1..Len(coordinates)}) = 4
  /\ coordinates[2][1] < coordinates[1][1]
  /\ coordinates[3][1] > coordinates[4][1]
  /\ Len(returned) = 2

----------------------------------------------------------------------------
(* Claims about db.ts *)

\* C5 (as claimed): after insertWalk(r), r is the only stored record whose
\* sourceFile equals r.sourceFile.
C5_OnlyRecordOfSourceFile ==
  lastCall = "insertWalk"
    => \A r \in walks : r.sourceFile = lastRow.sourceFile => r = lastRow

\* C5 (amended): insertWalk is keyed by id alone.  After insertWalk(r) the
\* store holds r, r is the only record with its id, and every other record that
\* was stored under a different id is still there unchanged, also one that
\* shares the sourceFile of r.
C5_KeyedById ==
  lastCall = "insertWalk"
    => /\ lastRow \in walks
       /\ \A r \in walks : r.id = lastRow.id => r = lastRow
       /\ walks \ {lastRow} = {r \in walksBefore : r.id # lastRow.id}

C5_Witness ==
  /\ lastCall = "insertWalk"
  /\ \E r \in walksBefore : r.id = lastRow.id /\ r # lastRow /\ r \notin walks
  /\ \E q \in walks : q.id # lastRow.id /\ q.sourceFile = lastRow.sourceFile

\* C13: every stored record with a non-empty coordinatesFull has finite
\* bounds that are the exact bounding box of coordinatesFull: every full
\* coordinate is inside, each of the four bounds is attained by a full
\* coordinate, min <= max on both axes, and a single-point track has
\* min = max on both axes.
C13_BoundsAreExactBox ==
  \A r \in walks :
    r.coordinatesFull # <<>> =>
      LET b == r.bounds
          full == {r.coordinatesFull[n] : n \in 1..Len(r.coordinatesFull)}
      IN /\ b.minLng[1] = 0 /\ b.maxLng[1] = 0 /\ b.minLat[1] = 0 /\ b.maxLat[1] = 0
         /\ \A c \in full : /\ b.minLng[2] <= c[1] /\ c[1] <= b.maxLng[2]
                            /\ b.minLat[2] <= c[2] /\ c[2] <= b.maxLat[2]
         /\ \E c \in full : c[1] = b.minLng[2]
         /\ \E c \in full : c[1] = b.maxLng[2]
         /\ \E c \in full : c[2] = b.minLat[2]
         /\ \E c \in full : c[2] = b.maxLat[2]
         /\ b.minLng[2] <= b.maxLng[2]
         /\ b.minLat[2] <= b.maxLat[2]
         /\ Len(r.coordinatesFull) = 1 =>
              (b.minLng = b.maxLng /\ b.minLat = b.maxLat)

C13_Witness ==
  /\ \E r \in walks :
       /\ r.coordinatesFull = <<(<<0, 0>>)>>
       /\ r.bounds = [minLng |-> Num(0), maxLng |-> Num(0),
                      minLat |-> Num(0), maxLat |-> Num(0)]
  /\ \E r \in walks :
       /\ Len(r.coordinatesSimplified) < Len(r.coordinatesFull)
       /\ \A n \in 1..Len(r.coordinatesSimplified) :
            r.bounds.minLng[2] < r.coordinatesSimplified[n][1]

----------------------------------------------------------------------------
(* Claims about preprocess-gpx.ts *)

Running == pc # "exited"
StatusRun == Running /\ statusOnly
SummariesRun == Running /\ ~statusOnly /\ summariesOnly
ForceRun == Running /\ ~statusOnly /\ ~summariesOnly /\ forceRebuild
IncrementalRun == Running /\ ~statusOnly /\ ~summariesOnly /\ ~forceRebuild

\* The per-file loop of main has been entered.
Entered == pc \in {"loop", "summary", "insert"} \/ (pc = "done" /\ exitPath = "complete")

SourceFiles(table) == {r.sourceFile : r \in table}
AllParse == \A f \in Range(filesToProcess) : dir[f] = "ok"
OutcomeFiles == [k \in 1..Len(outcome) |-> outcome[k].file]
CountOutcome(status) == Cardinality({k \in 1..Len(outcome) : outcome[k].status = status})
StripSummary(r) == [r EXCEPT !.summary = NoSummary]

\* C3: in an incremental run the work set is exactly the available sources
\* whose name is not a sourceFile of the store, in directory order; only those
\* are parsed and inserted; every record stored before the run stays as it
\* was; and when every new source parses (and the store does not fail) the
\* store ends with the previous count plus the number of new sources.
C3_IncrementalRun ==
  /\ IncrementalRun => walksAtStart \subseteq walks
  /\ (IncrementalRun /\ pc = "done" /\ exitPath = "nothing") => walks = walksAtStart
  /\ (IncrementalRun /\ Entered) =>
       /\ Range(filesToProcess) = Range(gpxFiles) \ SourceFiles(walksAtStart)
       /\ filesToProcess = FilterSeq(gpxFiles, Range(filesToProcess))
       /\ OutcomeFiles = SubSeq(filesToProcess, 1, Len(outcome))
       /\ SourceFiles(walks \ walksAtStart) \subseteq Range(filesToProcess)
       /\ (pc = "done" /\ AllParse /\ ~storeFailed)
            => Cardinality(walks) = Cardinality(walksAtStart) + Len(filesToProcess)

C3_Witness ==
  /\ IncrementalRun /\ pc = "done" /\ exitPath = "complete"
  /\ AllParse /\ ~storeFailed
  /\ Len(filesToProcess) = 2
  /\ \E r \in walksAtStart : r.summary = SummaryText
  /\ Cardinality(walks) = 3

\* C4: in a force run the store is empty when the first source is taken, the
\* work set is every available source, the store holds only records of the
\* sources processed so far, and when every source parses (and the store does
\* not fail) the store ends with exactly one record per available source.
C4_ForceRun ==
  (ForceRun /\ Entered) =>
    /\ filesToProcess = gpxFiles
    /\ (pc = "loop" /\ i = 0) => walks = {}
    /\ SourceFiles(walks) \subseteq {filesToProcess[k] : k \in 1..i}
    /\ Cardinality(walks) = successCount
    /\ (pc = "done" /\ AllParse /\ ~storeFailed) =>
         /\ Cardinality(walks) = Len(gpxFiles)
         /\ \A f \in Range(gpxFiles) : Cardinality({r \in walks : r.sourceFile = f}) = 1

C4_Witness ==
  /\ ForceRun /\ pc = "done" /\ exitPath = "complete"
  /\ AllParse /\ ~storeFailed
  /\ Len(gpxFiles) = 2
  /\ Cardinality(walksAtStart) = 3
  /\ Cardinality(walks) = 2

\* C6: a source that does not parse never ends a force or incremental run:
\* the sources counted so far are the first i of the work set, each counted
\* once as successful or failed, the two counters add up to their number, a
\* completed run has counted the whole work set, and only a store failure ends
\* a run through main().catch.
C6_MalformedNeverAborts ==
  /\ ((ForceRun \/ IncrementalRun) /\ Entered) =>
       /\ Len(outcome) = i
       /\ OutcomeFiles = SubSeq(filesToProcess, 1, i)
       /\ successCount = CountOutcome("ok")
       /\ errorCount = CountOutcome("failed")
       /\ successCount + errorCount = i
       /\ pc = "done" => successCount + errorCount = Len(filesToProcess)
  /\ ((ForceRun \/ IncrementalRun) /\ pc = "done" /\ exitPath = "fatal") => storeFailed

C6_Witness ==
  /\ (ForceRun \/ IncrementalRun) /\ pc = "done" /\ exitPath = "complete"
  /\ ~storeFailed
  /\ Len(filesToProcess) = 3
  /\ outcome[1].cause = "parse"
  /\ outcome[2].status = "ok"
  /\ outcome[3].cause = "parse"

\* C7 (as claimed): once a store operation has failed in a force or
\* incremental run, the run is over with exit code 1.
C7_StoreFailureIsFatal ==
  ((ForceRun \/ IncrementalRun) /\ storeFailed) => (pc = "done" /\ exitCode = 1)

\* C8: a summary request that fails, or Ollama being unavailable, never fails
\* a record: the walk is passed to insertWalk with no summary and, unless the
\* store itself fails, its record is stored and the source is counted as
\* successful; only parse and store failures are counted as errors.
C8_SummaryFailureNeverFailsRecord ==
  ((ForceRun \/ IncrementalRun) /\ Entered) =>
    /\ \A k \in 1..Len(outcome) :
         (outcome[k].summary \in {"failed", "unavailable"} /\ outcome[k].cause # "store")
           => /\ outcome[k].status = "ok"
              /\ \E r \in walks : r.sourceFile = outcome[k].file
    /\ errorCount = Cardinality({k \in 1..Len(outcome) : outcome[k].cause \in {"parse", "store"}})
    /\ (pc = "insert" /\ SummaryState # "ok") => summary = NoSummary

C8_Witness ==
  /\ (ForceRun \/ IncrementalRun) /\ pc = "done" /\ exitPath = "complete"
  /\ ollamaAvailable
  /\ Len(outcome) = 2
  /\ outcome[1].summary = "failed" /\ outcome[1].status = "ok"
  /\ outcome[2].summary = "ok"
  /\ successCount = 2 /\ errorCount = 0 /\ summaryCount = 1

\* C9: a refresh-summaries run asks for a summary only for records stored
\* without one and changes only the summary field of such records: the stored
\* records are the same up to the summary, a record that had a summary keeps
\* it, and with Ollama unavailable the store is as it was.
C9_RefreshSummariesOnly ==
  SummariesRun =>
    /\ {StripSummary(r) : r \in walks} = {StripSummary(r) : r \in walksAtStart}
    /\ Cardinality(walks) = Cardinality(walksAtStart)
    /\ \A r \in walksAtStart : r.summary # NoSummary => r \in walks
    /\ \A r \in walks \ walksAtStart :
         /\ r.id \in updatedIds
         /\ StripSummary(r) \in walksAtStart
    /\ pc = "sumWait" => StripSummary(walksWithoutSummary[wi + 1]) \in walksAtStart
    /\ summaryRequests <= Cardinality({r \in walksAtStart : r.summary = NoSummary})
    /\ ~ollamaAvailable => (walks = walksAtStart /\ summaryRequests = 0)

C9_Witness ==
  /\ SummariesRun /\ pc = "done" /\ exitPath = "summaries"
  /\ ollamaAvailable
  /\ \E r \in walksAtStart : r.summary = SummaryText
  /\ \E r \in walksAtStart : r.summary = NoSummary /\ r.id \in updatedIds
  /\ \E r \in walks : r.summary = NoSummary
  /\ forceRebuild

\* C10: a status run never changes the store and asks for no summary, also
\* with --force or --summaries on the command line; what it produces is the
\* count of unprocessed files, of orphaned records and of records without a
\* summary.
C10_StatusNeverMutates ==
  StatusRun =>
    /\ walks = walksAtStart
    /\ summaryRequests = 0
    /\ outcome = <<>>
    /\ updatedIds = {}
    /\ pc \in {"start", "mode", "done"}
    /\ (pc = "done" /\ exitPath = "status") =>
         /\ report.unprocessed = Cardinality(Range(gpxFiles) \ SourceFiles(walks))
         /\ report.orphaned = Cardinality(SourceFiles(walks) \ Range(gpxFiles))
         /\ report.missingSummaries = Cardinality({r \in walks : r.summary = NoSummary})

C10_Witness ==
  /\ StatusRun /\ pc = "done" /\ exitPath = "status"
  /\ forceRebuild /\ summariesOnly
  /\ report.unprocessed = 1
  /\ report.orphaned = 1
  /\ report.missingSummaries = 1
  /\ Cardinality(walks) = 2

----------------------------------------------------------------------------
(* Claims about Map.tsx *)

\* The walk of the list is the selected one.
IsSelected(w) == selectedWalk.id # NoMapWalk.id /\ selectedWalk.id = w.id

\* C14 (as claimed): the path of a visible walk is its coordinatesFull
\* whenever it is the selected walk, and also whenever zoom >= 14 and it has
\* full coordinates; otherwise it is its simplified coordinates.
C14_SelectLOD ==
  \A k \in 1..Len(visibleWalks) :
    layerPaths[k] =
      IF IsSelected(visibleWalks[k]) THEN visibleWalks[k].coordinatesFull
      ELSE IF viewState.zoom >= 14 /\ visibleWalks[k].hasFull
           THEN visibleWalks[k].coordinatesFull
      ELSE visibleWalks[k].coordinates

\* C14 (amended): the path of a walk is its coordinatesFull exactly when it
\* has full coordinates and is either the selected walk (or asked for with
\* forceHighDetail, as the selected-route layers do) or drawn at zoom >= 14;
\* in every other case, also for a selected walk without full coordinates, it
\* is the simplified coordinates.
C14_SelectLODWhenFullAvailable ==
  /\ Len(layerPaths) = Len(visibleWalks)
  /\ \A k \in 1..Len(visibleWalks) :
       layerPaths[k] =
         IF visibleWalks[k].hasFull /\ (IsSelected(visibleWalks[k]) \/ viewState.zoom >= 14)
         THEN visibleWalks[k].coordinatesFull
         ELSE visibleWalks[k].coordinates
  /\ selectedWalk.id # NoMapWalk.id =>
       selectedPath = IF selectedWalk.hasFull THEN selectedWalk.coordinatesFull
                      ELSE selectedWalk.coordinates

C14_Witness ==
  /\ viewState.zoom = 13
  /\ \E k \in 1..Len(visibleWalks) :
       /\ IsSelected(visibleWalks[k])
       /\ visibleWalks[k].hasFull
       /\ layerPaths[k] = visibleWalks[k].coordinatesFull
       /\ layerPaths[k] # visibleWalks[k].coordinates
  /\ \E k \in 1..Len(visibleWalks) :
       /\ ~IsSelected(visibleWalks[k])
       /\ visibleWalks[k].hasFull
       /\ layerPaths[k] = visibleWalks[k].coordinates

\* C15: visibleWalks is the whole prop `walks`, unfiltered, whenever the zoom is
\* below 10; at zoom 10 and above it is exactly the walks that lack bounds or
\* whose bounds overlap the viewport rectangle derived from the view state, in
\* their original order.
C15_VisibleWalks ==
  LET vp == getViewportBounds(viewState)
      Shown(w) == \/ ~w.hasBounds
                  \/ /\ w.bounds.maxLng >= vp.minLng
                     /\ w.bounds.minLng <= vp.maxLng
                     /\ w.bounds.maxLat >= vp.minLat
                     /\ w.bounds.minLat <= vp.maxLat
  IN IF viewState.zoom < 10 THEN visibleWalks = mapWalks
     ELSE visibleWalks = SelectSeq(mapWalks, Shown)

\* At zoom 14 the whole pool is given: the walk touching the east edge and the
\* walk without bounds are kept, the walks outside are dropped, order kept.
C15_Witness ==
  /\ viewState = [zoom |-> 14, longitude |-> 0, latitude |-> 0]
  /\ mapWalks = MapWalkPool
  /\ visibleWalks = <<MapWalkPool[1], MapWalkPool[2], MapWalkPool[5]>>

\* The stored bounds of a row as the map holds them (plain numbers); every row
\* of a non-empty track has finite bounds.
RowBounds(r) ==
  [minLng |-> r.bounds.minLng[2], maxLng |-> r.bounds.maxLng[2],
   minLat |-> r.bounds.minLat[2], maxLat |-> r.bounds.maxLat[2]]

Max2(a, b) == IF a < b THEN b ELSE a
Min2(a, b) == IF a < b THEN a ELSE b

\* Two rectangles share a point: on both axes the larger of the lower ends is
\* not above the smaller of the upper ends.
SharePoint(a, b) ==
  /\ Max2(a.minLng, b.minLng) <= Min2(a.maxLng, b.maxLng)
  /\ Max2(a.minLat, b.minLat) <= Min2(a.maxLat, b.maxLat)

\* C16: overlaps(recordBounds, viewportBounds) is false whenever the record lies
\* entirely to one side of the rectangle on either axis and true otherwise,
\* rectangles that only touch at an edge counting as overlapping; and
\* getWalksInBounds returns exactly the stored rows for which overlaps is true.
C16_QueryIsOverlaps ==
  lastCall = "getWalksInBounds"
    => /\ queryResult = {r \in walks : overlaps(RowBounds(r), queryBounds)}
       /\ \A r \in walks :
            /\ overlaps(RowBounds(r), queryBounds) = SharePoint(RowBounds(r), queryBounds)
            /\ (\/ RowBounds(r).maxLng < queryBounds.minLng
                \/ RowBounds(r).minLng > queryBounds.maxLng
                \/ RowBounds(r).maxLat < queryBounds.minLat
                \/ RowBounds(r).minLat > queryBounds.maxLat)
                 => r \notin queryResult

\* A query returned a row that only touches the rectangle at an edge and left
\* out a row lying entirely west of it.
C16_Witness ==
  /\ lastCall = "getWalksInBounds"
  /\ \E r \in queryResult : RowBounds(r).maxLng = queryBounds.minLng
  /\ \E r \in walks \ queryResult : RowBounds(r).maxLng < queryBounds.minLng

\* The rectangles of the map's state: the bounds of the walks given and the
\* viewport rectangle of the view state.
MapRects ==
  {mapWalks[k].bounds : k \in {n \in 1..Len(mapWalks) : mapWalks[n].hasBounds}}
    \cup {getViewportBounds(viewState)}

\* C17: overlaps is symmetric: overlaps(A, B) = overlaps(B, A) for all bounds A
\* and B.
C17_OverlapsSymmetric ==
  \A a \in MapRects : \A b \in MapRects : overlaps(a, b) = overlaps(b, a)

\* Among the rectangles there are two different ones that overlap and two
\* that do not, one of them lying east and the other north of the viewport.
C17_Witness ==
  LET vp == getViewportBounds(viewState)
  IN /\ \E a \in MapRects : a # vp /\ overlaps(a, vp) /\ overlaps(vp, a)
     /\ \E a \in MapRects : a.minLng > vp.maxLng /\ ~overlaps(a, vp)
     /\ \E a \in MapRects : a.minLat > vp.maxLat /\ ~overlaps(vp, a)

(***************************************************************************)
(* Claims about the metrics of a track                                     *)
(***************************************************************************)
\* The indices of the points that carry a time.
Timestamped(ps) == {k \in 1..Len(ps) : ps[k].hasTime}

MinOf(S) == CHOOSE m \in S : \A n \in S : m <= n
MaxOf(S) == CHOOSE m \in S : \A n \in S : n <= m

\* durationMinutes(points): the time of the last timestamped point minus the
\* time of the first one, in minutes; 0 with fewer than two timestamped points.
DurationMinutes(ps) ==
  IF Cardinality(Timestamped(ps)) < 2 THEN 0
  ELSE (ps[MaxOf(Timestamped(ps))].time - ps[MinOf(Timestamped(ps))].time) \div 60000

\* C18 as stated: the duration of the record is durationMinutes(points) in
\* every case except when that value is exactly 0, and the 5 km/h estimate
\* distanceKm / 5 * 60 only when it is 0.
C18_EstimateOnlyWhenZero ==
  mpc = "returned"
    => walkDuration = IF DurationMinutes(points) = 0
                      THEN (walkDistance \div 5) * 60
                      ELSE DurationMinutes(points)

\* C18: the duration of the record is durationMinutes(points) when that value
\* is positive, and the 5 km/h estimate distanceKm / 5 * 60 in every other
\* case: when it is 0 and when it is negative (the last timestamped point is
\* earlier than the first).
C18_EstimateUnlessPositive ==
  mpc = "returned"
    => walkDuration = IF DurationMinutes(points) > 0
                      THEN DurationMinutes(points)
                      ELSE (walkDistance \div 5) * 60

\* A track whose last timestamped point is earlier than its first one got the
\* estimate of its distance.
C18_Witness ==
  /\ mpc = "returned"
  /\ DurationMinutes(points) < 0
  /\ walkDistance = 5
  /\ walkDuration = 60

\* The pairs of consecutive points in which both points have an elevation,
\* named by the index of their second point.
ConsideredPairs(ps) ==
  {k \in 2..Len(ps) : ps[k - 1].hasElevation /\ ps[k].hasElevation}

Delta(ps, k) == ps[k].elevation - ps[k - 1].elevation

\* The sum of f[k] over the k of S.
RECURSIVE SumOver(_, _)
SumOver(S, f) ==
  IF S = {} THEN 0
  ELSE LET k == CHOOSE n \in S : TRUE
       IN f[k] + SumOver(S \ {k}, f)

Deltas(ps) == [k \in ConsideredPairs(ps) |-> Delta(ps, k)]
Rises(ps) ==
  [k \in ConsideredPairs(ps) |-> IF Delta(ps, k) > 0 THEN Delta(ps, k) ELSE 0]
Falls(ps) ==
  [k \in ConsideredPairs(ps) |-> IF Delta(ps, k) < 0 THEN 0 - Delta(ps, k) ELSE 0]

\* C19: calculateElevation considers exactly the consecutive pairs in which
\* both points have an elevation: gain is the sum of their positive deltas and
\* loss the sum of the absolute values of their negative deltas, a pair with a
\* missing elevation on either side contributing nothing; hence gain >= 0,
\* loss >= 0 and gain - loss is the sum of the deltas of the considered pairs.
C19_ElevationGainLoss ==
  mpc # "parsed" /\ mpc # "none"
    => /\ elevation.gain = SumOver(ConsideredPairs(points), Rises(points))
       /\ elevation.loss = SumOver(ConsideredPairs(points), Falls(points))
       /\ elevation.gain >= 0
       /\ elevation.loss >= 0
       /\ elevation.gain - elevation.loss
            = SumOver(ConsideredPairs(points), Deltas(points))

\* A track that climbs, has a point without elevation, and comes back lower:
\* the drop across the gap is not counted.
C19_Witness ==
  /\ mpc = "measured"
  /\ Len(points) = 3
  /\ points[1].hasElevation /\ points[1].elevation = 5
  /\ ~points[2].hasElevation
  /\ points[3].hasElevation /\ points[3].elevation = 0
  /\ elevation = [gain |-> 0, loss |-> 0]

\* C20: the ingestion batch is strictly sequential: a source is fully
\* processed (parsed, its summary request answered or failed, its record
\* upserted or the source counted as failed) before the next one begins, so at
\* most one summary request is outstanding at any time and upserts happen in
\* work-set order.
C20_StrictlySequential ==
  /\ outstanding \in {0, 1}
  /\ outstanding = 1 => pc \in {"summary", "sumWait"}
  /\ ((ForceRun \/ IncrementalRun) /\ Entered) =>
       /\ OutcomeFiles = SubSeq(filesToProcess, 1, i)
       /\ pc \in {"summary", "insert"} =>
            /\ i < Len(filesToProcess)
            /\ walk.sourceFile = filesToProcess[i + 1]
       /\ pc = "summary" <=> outstanding = 1
       /\ \A k \in (i + 1)..Len(filesToProcess) :
            filesToProcess[k] \notin SourceFiles(walks)
       /\ \A k \in 1..i :
            outcome[k].status = "ok" => filesToProcess[k] \in SourceFiles(walks)

\* The request of the second source is outstanding: the first source has been
\* upserted, the third has not been begun.
C20_Witness ==
  /\ (ForceRun \/ IncrementalRun)
  /\ pc = "summary" /\ outstanding = 1
  /\ Len(filesToProcess) = 3 /\ i = 1
  /\ outcome[1].status = "ok" /\ outcome[1].summary = "ok"
  /\ filesToProcess[1] \in SourceFiles(walks)
  /\ filesToProcess[3] \notin SourceFiles(walks)

\* A step taken once the run is over leaves the table as it is and the handle
\* closed.
StoreUntouchedAfterExit ==
  pc \in {"done", "exited"} => (walks' = walks /\ ~dbOpen')

\* C21: on every terminating path of a run on which the store handle was
\* opened (status, refresh-summaries, nothing-to-do, completion, fatal error)
\* the store is closed before the process ends, and no store operation is
\* performed after that close: once the run is over the handle is closed and
\* stays closed, and the table is not touched, until the next run.
C21_StoreClosedAtExit ==
  /\ [](pc \in {"done", "exited"} => ~dbOpen)
  /\ [][StoreUntouchedAfterExit]_vars

\* A run that stored a walk and then failed fatally has ended with the store
\* closed.
C21_Witness ==
  /\ pc = "done" /\ exitPath = "fatal"
  /\ successCount >= 1
  /\ walks # walksAtStart
  /\ ~dbOpen

\* C22: incremental ingestion is idempotent: an incremental run that finds
\* every available source already stored selects an empty work set, performs
\* no upsert and no summary request, and leaves every stored record unchanged.
C22_IncrementalIdempotent ==
  (IncrementalRun /\ Range(ListGpx(dir)) \subseteq SourceFiles(walksAtStart)) =>
    /\ filesToProcess = <<>>
    /\ walks = walksAtStart
    /\ summaryRequests = 0
    /\ updatedIds = {}
    /\ outcome = <<>>
    /\ pc \notin {"loop", "summary", "insert"}
    /\ pc = "done" => exitPath \in {"nodir", "nofiles", "nothing", "fatal"}
    /\ (pc = "done" /\ exitPath = "fatal") => storeFailed

\* The second run over two sources a run before it stored has ended with
\* nothing to do, although Ollama was available and one of the records has no
\* summary.
C22_Witness ==
  /\ IncrementalRun /\ pc = "done" /\ exitPath = "nothing"
  /\ Len(gpxFiles) = 2
  /\ Range(gpxFiles) = SourceFiles(walksAtStart)
  /\ ollamaAvailable
  /\ \E r \in walks : r.summary = NoSummary
  /\ walks = walksAtStart

----------------------------------------------------------------------------
(* Further claims about simplify.ts *)

\* The elements of a set of numbers in ascending order.
RECURSIVE Ascending(_)
Ascending(K) ==
  IF K = {} THEN <<>>
  ELSE <<MinOf(K)>> \o Ascending(K \ {MinOf(K)})

\* The ways of reading `out` as a selection of positions of `coords`: the sets
\* of positions, the first and the last among them, whose points in ascending
\* order are the points of `out`.
Selections(coords, out) ==
  {K \in SUBSET (1..Len(coords)) :
     /\ Cardinality(K) = Len(out)
     /\ coords # <<>> => (1 \in K /\ Len(coords) \in K)
     /\ \A k \in 1..Len(out) : coords[Ascending(K)[k]] = out[k]}

\* The distance of p to the chord from a to b (to the point a when the chord
\* is degenerate) is at most tol: with the square of the distance n2 / d2 grid
\* steps, GridStep^2 * n2 <= tol^2 * d2.
WithinTolerance(p, a, b, tol) ==
  LET dx == b[1] - a[1]
      dy == b[2] - a[2]
      cross == dx * (p[2] - a[2]) - dy * (p[1] - a[1])
      n2 == IF dx = 0 /\ dy = 0
            THEN (p[1] - a[1]) * (p[1] - a[1]) + (p[2] - a[2]) * (p[2] - a[2])
            ELSE cross * cross
      d2 == IF dx = 0 /\ dy = 0 THEN 1 ELSE dx * dx + dy * dy
  IN /\ tol >= 0
     /\ ~BigLess(BigMul(BigMul(BigOf(tol), BigOf(tol)), BigOf(d2)),
                 BigMul(GridStepSq, BigOf(n2)))

\* C23: simplifyPath introduces a perpendicular deviation of at most the
\* tolerance: every input point that is dropped lies within the tolerance of
\* the chord joining the nearest retained point before it and the nearest
\* retained point after it.
C23_DeviationWithinTolerance ==
  (op = "simplifyPath" /\ spc = "returned") =>
    \E K \in Selections(coordinates, returned) :
      \A j \in (1..Len(coordinates)) \ K :
        WithinTolerance(coordinates[j],
                        coordinates[MaxOf({k \in K : k < j})],
                        coordinates[MinOf({k \in K : k > j})],
                        tolerance)

\* A call with a positive tolerance kept an interior point and dropped
\* another one that is off the chord of its neighbours.
C23_Witness ==
  /\ op = "simplifyPath" /\ spc = "returned" /\ tolerance > 0
  /\ Len(coordinates) = 4 /\ Len(returned) = 3
  /\ \E K \in Selections(coordinates, returned) :
       \E j \in (1..Len(coordinates)) \ K :
         ~WithinTolerance(coordinates[j],
                          coordinates[MaxOf({k \in K : k < j})],
                          coordinates[MinOf({k \in K : k > j})],
                          0)

\* `out` is a subsequence of `coords`: the points of some positions of
\* coords, each position at most once, in the order of the positions.
IsSubsequence(out, coords) ==
  \E K \in SUBSET (1..Len(coords)) :
    /\ Cardinality(K) = Len(out)
    /\ \A k \in 1..Len(out) : coords[Ascending(K)[k]] = out[k]

\* C24: simplification never reorders or invents points: what simplifyPath
\* returns to the search of simplifyToCount, and what simplifyToCount returns,
\* is a subsequence of the input.
C24_OutputIsSubsequence ==
  op = "simplifyToCount" =>
    /\ spc \in {"loop", "after"} => IsSubsequence(result, coordinates)
    /\ spc = "returned" => IsSubsequence(returned, coordinates)

\* simplifyToCount has returned fewer points than it was given, and more than
\* the two end points.
C24_Witness ==
  /\ op = "simplifyToCount" /\ spc = "returned"
  /\ 2 < Len(returned)
  /\ Len(returned) < Len(coordinates)
  /\ Len(result) < Len(coordinates)

\* The square of the distance of p to the chord from a to b, times the square
\* of the length of the chord (the square of the distance to a when the chord
\* is a point): for one chord, a larger value is a larger distance.
Offset(p, a, b) ==
  LET dx == b[1] - a[1]
      dy == b[2] - a[2]
      cross == dx * (p[2] - a[2]) - dy * (p[1] - a[1])
  IN IF dx = 0 /\ dy = 0
     THEN (p[1] - a[1]) * (p[1] - a[1]) + (p[2] - a[2]) * (p[2] - a[2])
     ELSE cross * cross

\* The position of the farthest interior point, the first of them when
\* several are equally far.
Farthest(coords) ==
  CHOOSE m \in 2..(Len(coords) - 1) :
    /\ \A j \in 2..(Len(coords) - 1) :
         Offset(coords[j], coords[1], coords[Len(coords)])
           <= Offset(coords[m], coords[1], coords[Len(coords)])
    /\ \A j \in 2..(m - 1) :
         Offset(coords[j], coords[1], coords[Len(coords)])
           < Offset(coords[m], coords[1], coords[Len(coords)])

\* The reference Douglas-Peucker recursion.
RECURSIVE ReferenceDP(_, _)
ReferenceDP(coords, tol) ==
  IF Len(coords) <= 2 THEN coords
  ELSE LET m == Farthest(coords)
       IN IF ~WithinTolerance(coords[m], coords[1], coords[Len(coords)], tol)
          THEN ReferenceDP(SubSeq(coords, 1, m), tol)
                 \o Tail(ReferenceDP(SubSeq(coords, m, Len(coords)), tol))
          ELSE <<coords[1], coords[Len(coords)]>>

\* C25: simplifyPath agrees with the reference Douglas-Peucker recursion: when
\* the largest interior distance to the chord exceeds the tolerance the result
\* is the simplified prefix up to the farthest point followed by the
\* simplified suffix from it, the junction point once; otherwise it is
\* <<first, last>>.  [(0,0),(0,1),(0,2),(1,2)] with tolerance 0.5 gives
\* [(0,0),(0,2),(1,2)].
C25_AgreesWithReference ==
  (op = "simplifyPath" /\ spc = "returned") =>
    /\ returned = ReferenceDP(coordinates, tolerance)
    /\ (coordinates = ScenarioTrack /\ tolerance = ScenarioTolerance)
         => returned = <<(<<0, 0>>), (<<0, 2>>), (<<1, 2>>)>>

C25_Witness ==
  /\ op = "simplifyPath" /\ spc = "returned"
  /\ coordinates = ScenarioTrack
  /\ tolerance = ScenarioTolerance
  /\ returned = <<(<<0, 0>>), (<<0, 2>>), (<<1, 2>>)>>

----------------------------------------------------------------------------
(* Further claims about the pipeline *)

\* C26: starting from an empty store, after any sequence of runs in any modes
\* over any sets of source files, no two stored records have the same
\* sourceFile.
C26_UniqueSourceFile ==
  \A r \in walks : \A q \in walks : r.sourceFile = q.sourceFile => r = q

\* A force run has stored again, under new ids, sources that were stored
\* before it, and the store holds three records.
C26_Witness ==
  /\ ForceRun /\ pc = "done" /\ exitPath = "complete"
  /\ Cardinality(walks) = 3
  /\ SourceFiles(walksAtStart) = SourceFiles(walks)
  /\ walksAtStart # walks

\* within a run no aggregate counter decreases (a new process starts them at 0)
CountersOnlyIncrease ==
  pc' # "exited" =>
    /\ successCount' >= successCount
    /\ errorCount' >= errorCount
    /\ summaryCount' >= summaryCount
    /\ totalOriginalPoints' >= totalOriginalPoints
    /\ totalSimplifiedPoints' >= totalSimplifiedPoints

\* a summary has been generated for the record about to be stored
SummaryAhead == IF pc = "insert" THEN 1 ELSE 0

\* C30, as stated: the aggregate counters of a run only ever increase, and at
\* every point of the run, completion included, summaryCount does not exceed
\* successCount.
C30_SummariesNeverExceedStored ==
  /\ [][CountersOnlyIncrease]_vars
  /\ [](summaryCount <= successCount)

\* C30, amended: the aggregate counters of a run only ever increase;
\* summaryCount counts the summaries generated and is incremented before the
\* record is stored, so it never exceeds the number of sources counted as
\* stored or failed, plus one while a record is about to be stored; it
\* exceeds successCount by more than that only after insertWalk has thrown.
C30_CountersMonotoneSummariesGenerated ==
  /\ [][CountersOnlyIncrease]_vars
  /\ [](summaryCount <= successCount + errorCount + SummaryAhead)
  /\ [](~storeFailed => summaryCount <= successCount + SummaryAhead)

\* A run has completed with more summaries generated than records stored:
\* insertWalk threw for a record whose summary had been generated.
C30_Witness ==
  /\ pc = "done" /\ exitPath = "complete"
  /\ successCount >= 1
  /\ summaryCount > successCount
  /\ totalOriginalPoints > 0


(***************************************************************************)
(* Claims about the walks context                                          *)
(***************************************************************************)

\* C27: whenever a walk is selected and the full-detail data of its id is in
\* fullCoordinatesCache, the selected walk eventually carries coordinatesFull
\* (or is no longer the selected walk), whatever the interleaving of
\* selections, responses and reloads.
C27_SelectedEventuallyFull ==
  \A id \in WalkIds :
    (ctxSelectedWalk.id = id /\ id \in fullCoordinatesCache)
      ~> (ctxSelectedWalk.id # id \/ ctxSelectedWalk.coordinatesFull)

\* C28: at most one fetch of a walk id is answered with its data; every later
\* request for the id is served from fullCoordinatesCache.
C28_AtMostOneSuccessfulFetch == \A id \in WalkIds : fetched[id] <= 1

\* a full-detail response, with data or without, leaves the selected id alone
ResponseKeepsSelectedId ==
  (FetchSucceeds \/ FetchFails) => ctxSelectedWalk'.id = ctxSelectedWalk.id

\* C29: a selected walk and an open overlap popup never coexist,
\* overlayPosition is non-null exactly when overlappingWalks is non-empty,
\* and a full-detail response never changes which walk id is selected.
C29_SelectionAndPopupExclusive ==
  /\ [](overlappingWalks # <<>> => ctxSelectedWalk = NoSelectedWalk)
  /\ [](overlayPosition # NoPosition <=> overlappingWalks # <<>>)
  /\ [][ResponseKeepsSelectedId]_vars

\* the response for walk 1 has just arrived, late: walk 2 is the selected walk
C29_Witness ==
  /\ lastResponse = 1
  /\ ctxSelectedWalk.id = 2
  /\ 1 \in fullCoordinatesCache
  /\ overlappingWalks = <<>>

====
